---- MODULE Spec2Model ----
(***************************************************************************)
(* A model of Unzip-Them-All: the format sniffer (core/file_analyzer.py),  *)
(* the recursive extraction orchestrator (core/extractor.py), the WinRAR   *)
(* wrapper (core/winrar_helper.py) and the task runner                     *)
(* (gui/worker_thread.py), over an explicit file system.                   *)
(*                                                                         *)
(* File names are records [base, sfx, ext]: "report_1.txt" is base         *)
(* "report", sfx <<1>>, ext ".txt", so that the "_<counter>" names the     *)
(* code builds and the names an archive may already hold are the same      *)
(* values.  A path is a sequence of names; the empty path stands for None. *)
(***************************************************************************)
EXTENDS Integers, Sequences, FiniteSets, TLC

VARIABLES
    cfg,       \* the inputs of the run: driver, tasks, flags (never changes)
    fs,        \* the file system: path -> node
    world,     \* what the external decoder yields for the archives met so far
    stack,     \* the frames of _extract_recursive, innermost last
    drv,       \* position and locals of extract() / ExtractWorker.run()
    running,   \* ExtractWorker._running (the value the stop predicate negates)
    password,  \* FileExtractor.password
    log,       \* messages given to the log callback, in order
    calls,     \* invocations of the external decoder, in order
    signals,   \* progress / task status / finished events, in order
    exits,     \* one record per frame that control has left, in order
    sniff,     \* locals of a direct call of the analyzer
    stopcall,  \* whether FileExtractor.stop() was called, and after how many files
    passwords  \* PasswordManager.passwords

vars == <<cfg, fs, world, stack, drv, running, password, log, calls, signals, exits, sniff,
          stopcall, passwords>>

----------------------------------------------------------------------------
(* Bounds of the model *)

\* longest list of top-level files given to one run
MaxTop == 2
\* most entries one archive of the general scenarios holds
MaxEntries == 2
\* longest chain of nested archives
ChainLen == 12
\* longest list of saved passwords
MaxPasswords == 3

----------------------------------------------------------------------------
(* Names and paths *)

NoPath == <<>>

Nm(b, e) == [base |-> b, sfx |-> <<>>, ext |-> e]
NmN(b, n, e) == [base |-> b, sfx |-> <<n>>, ext |-> e]
Dir(b) == Nm(b, "")

\* Path.suffix of the model's names
Suffix(name) == name.ext
\* Path.stem, as a name
Stem(name) == [name EXCEPT !.ext = ""]
\* Path.with_suffix
WithSuffix(name, e) == [name EXCEPT !.ext = e]
\* f"{base}_{counter}{ext}"
WithCounter(name, c) == [name EXCEPT !.sfx = Append(@, c)]

Last(p) == p[Len(p)]
Parent(p) == SubSeq(p, 1, Len(p) - 1)
Child(p, name) == Append(p, name)
IsPrefix(d, p) == Len(d) <= Len(p) /\ SubSeq(p, 1, Len(d)) = d
\* Path.relative_to
RelativeTo(p, d) == SubSeq(p, Len(d) + 1, Len(p))

\* str.lower() on the extensions of the model
Lower(e) ==
    CASE e = ".ZIP" -> ".zip"
      [] e = ".RAR" -> ".rar"
      [] e = ".TXT" -> ".txt"
      [] e = ".Pdf" -> ".pdf"
      [] OTHER -> e

----------------------------------------------------------------------------
(* File system *)

NoTag == [k |-> "none", n |-> 0]
DirNode == [kind |-> "dir", head |-> <<>>, tag |-> NoTag]
FileNode(c) == [kind |-> "file", head |-> c.head, tag |-> c.tag]
Content(node) == [head |-> node.head, tag |-> node.tag]

Exists(f, p) == p \in DOMAIN f
IsFile(f, p) == p \in DOMAIN f /\ f[p].kind = "file"
IsDir(f, p) == p \in DOMAIN f /\ f[p].kind = "dir"

Prefixes(p) == {SubSeq(p, 1, n) : n \in 1..Len(p)}

\* Path.mkdir(parents=True, exist_ok=True): FileExistsError when the path or
\* one of its parents is a file
MkdirOk(f, p) == \A q \in Prefixes(p) : ~IsFile(f, q)
Mkdir(f, p) ==
    [q \in DOMAIN f \cup Prefixes(p) |-> IF q \in DOMAIN f THEN f[q] ELSE DirNode]

\* a removal that empties the directory and leaves the directory itself
RmTree_ContentsOnly(f, d) == [q \in {x \in DOMAIN f : ~IsPrefix(d, x) \/ x = d} |-> f[q]]

\* shutil.rmtree(path, ignore_errors=True)
RmTree(f, d) == [q \in {x \in DOMAIN f : ~IsPrefix(d, x)} |-> f[q]]

\* os.rename / shutil.move of a file or of a whole directory to a free path
MoveTree(f, a, b) ==
    LET moved == {x \in DOMAIN f : IsPrefix(a, x)}
        target(x) == b \o RelativeTo(x, a)
    IN  [q \in (DOMAIN f \ moved) \cup {target(x) : x \in moved} |->
            IF \E x \in moved : target(x) = q
            THEN f[CHOOSE x \in moved : target(x) = q]
            ELSE f[q]]

\* a directory whose entries the process may not rename (PermissionError)
LockedDir == [kind |-> "dir", head |-> <<>>, tag |-> [k |-> "locked", n |-> 0]]

\* a rename that replaces whatever is at the target
RenameOk_Replacing(f, a, b) == Exists(f, a) /\ IsDir(f, Parent(b))

\* Path.rename on Windows: FileExistsError when the target exists,
\* PermissionError when the directory does not allow it
RenameOk(f, a, b) ==
    Exists(f, a) /\ ~Exists(f, b) /\ IsDir(f, Parent(b)) /\ f[Parent(b)] # LockedDir

\* the files under a directory (rglob('*') filtered by is_file)
FilesUnder(f, d) == {x \in DOMAIN f : IsPrefix(d, x) /\ x # d /\ f[x].kind = "file"}

\* every order a directory scan may list a set of paths in
Orders(S) == {s \in [1..Cardinality(S) -> S] : \A x \in S : \E i \in DOMAIN s : s[i] = x}

----------------------------------------------------------------------------
(* core/file_analyzer.py *)

Magic(m, name, e) == [magic |-> m, name |-> name, ext |-> e]

\* the dict, in insertion order; ext "None" is Python's None
MAGIC_NUMBERS == <<
    Magic(<<80, 75, 3, 4>>, "ZIP", ".zip"),
    Magic(<<80, 75, 5, 6>>, "ZIP", ".zip"),
    Magic(<<80, 75, 7, 8>>, "ZIP", ".zip"),
    Magic(<<82, 97, 114, 33>>, "RAR", ".rar"),
    Magic(<<82, 97, 114, 33, 26, 7>>, "RAR v5", ".rar"),
    Magic(<<55, 122, 188, 175, 39, 28>>, "7Z", ".7z"),
    Magic(<<31, 139>>, "GZIP", ".gz"),
    Magic(<<66, 90, 104>>, "BZIP2", ".bz2"),
    Magic(<<253, 55, 122, 88, 90, 0>>, "XZ", ".xz"),
    Magic(<<37, 80, 68, 70>>, "PDF", ".pdf"),
    Magic(<<80, 51, 82, 51>>, "MP3", ".mp3"),
    Magic(<<0, 0, 0>>, "MP4/RAR", "None") >>

VALID_ARCHIVE_EXTENSIONS == {".zip", ".rar", ".7z", ".gz", ".bz2", ".xz", ".tar"}

VOLUME_EXTENSIONS ==
    {".001", ".002", ".003", ".004", ".005", ".006", ".007", ".008", ".009"}

NON_ARCHIVE_EXTENSIONS ==
    {".txt", ".doc", ".docx", ".xls", ".xlsx", ".ppt", ".pdf", ".jpg", ".jpeg",
     ".png", ".gif", ".bmp", ".mp3", ".mp4", ".avi", ".mkv", ".flv", ".wmv",
     ".exe", ".dll", ".iso", ".img"}

\* the label NON_ARCHIVE_EXTENSIONS gives an extension
NonArchiveLabel(e) ==
    CASE e = ".txt" -> "text file"
      [] e \in {".doc", ".docx"} -> "Word"
      [] e \in {".xls", ".xlsx"} -> "Excel"
      [] e = ".ppt" -> "PowerPoint"
      [] e \in {".jpg", ".jpeg"} -> "JPEG"
      [] e = ".exe" -> "executable"
      [] e = ".dll" -> "dynamic link library"
      [] e = ".iso" -> "ISO image"
      [] e = ".img" -> "IMG image"
      [] e = ".pdf" -> "PDF"
      [] e = ".png" -> "PNG"
      [] e = ".gif" -> "GIF"
      [] e = ".bmp" -> "BMP"
      [] e = ".mp3" -> "MP3"
      [] e = ".mp4" -> "MP4"
      [] e = ".avi" -> "AVI"
      [] e = ".mkv" -> "MKV"
      [] e = ".flv" -> "FLV"
      [] e = ".wmv" -> "WMV"
      [] OTHER -> "None"

\* the dict archive_extensions of identify
ExtFormat(e) ==
    CASE e = ".zip" -> "ZIP"
      [] e = ".rar" -> "RAR"
      [] e = ".7z" -> "7Z"
      [] e = ".tar" -> "TAR"
      [] e = ".gz" -> "GZIP"
      [] e = ".bz2" -> "BZIP2"
      [] e = ".xz" -> "XZ"
      [] OTHER -> "None"

\* bytes.startswith
StartsWith(h, m) == Len(h) >= Len(m) /\ SubSeq(h, 1, Len(m)) = m

\* the two MP4 headers identify tells from the 00 00 00 prefix
Mp4Mp42 == <<0, 0, 0, 24, 102, 116, 121, 112, 109, 112, 52, 50>>
Mp4Isom == <<0, 0, 0, 32, 102, 116, 121, 112, 105, 115, 111, 109>>

Reason(kind, fmt, e, n) == [kind |-> kind, fmt |-> fmt, ext |-> e, n |-> n]
Verdict(a, fmt, r) == [is_archive |-> a, format_name |-> fmt, reason |-> r]

\* index of the first entry of the table the header starts with, 0 when none
FirstMagic(h) ==
    LET hits == {i \in DOMAIN MAGIC_NUMBERS : StartsWith(h, MAGIC_NUMBERS[i].magic)}
    IN  IF hits = {} THEN 0 ELSE CHOOSE i \in hits : \A j \in hits : i <= j

\* a sniffer that believes the extension when it contradicts the content
MagicVerdict_ExtensionWins(m, h, cur) ==
    IF m.ext # "None" /\ cur # m.ext
    THEN Verdict(FALSE, m.name, Reason("magic_not_archive", m.name, "", 0))
    ELSE IF m.ext \in VALID_ARCHIVE_EXTENSIONS
    THEN Verdict(TRUE, m.name, Reason("magic", m.name, "", 0))
    ELSE Verdict(FALSE, m.name, Reason("magic_not_archive", m.name, "", 0))

\* lines 92-114: the body of the loop over MAGIC_NUMBERS, for the entry that matched
MagicVerdict(m, h, cur) ==
    IF m.magic = <<0, 0, 0>> /\ (StartsWith(h, Mp4Mp42) \/ StartsWith(h, Mp4Isom))
    THEN Verdict(FALSE, "MP4", Reason("mp4", "MP4", "", 0))
    ELSE IF m.ext # "None" /\ cur # m.ext /\ m.ext \in VALID_ARCHIVE_EXTENSIONS
    THEN Verdict(TRUE, m.name, Reason("magic_mismatch", m.name, cur, 0))
    ELSE IF m.ext \in VALID_ARCHIVE_EXTENSIONS
    THEN Verdict(TRUE, m.name, Reason("magic", m.name, "", 0))
    ELSE Verdict(FALSE, m.name, Reason("magic_not_archive", m.name, "", 0))

\* a classification by extension that knows no volume extensions
ExtensionVerdict_NoVolumes(cur, size) ==
    IF ExtFormat(cur) # "None"
    THEN Verdict(TRUE, ExtFormat(cur), Reason("extension_only", ExtFormat(cur), cur, 0))
    ELSE IF cur \in NON_ARCHIVE_EXTENSIONS
    THEN Verdict(FALSE, NonArchiveLabel(cur),
                 Reason("non_archive_extension", NonArchiveLabel(cur), cur, 0))
    ELSE Verdict(FALSE, "unknown", Reason("unknown", "unknown", cur, size))

\* the classification by extension, when no magic number matched
ExtensionVerdict(cur, size) ==
    IF ExtFormat(cur) # "None"
    THEN Verdict(TRUE, ExtFormat(cur), Reason("extension_only", ExtFormat(cur), cur, 0))
    ELSE IF cur \in VOLUME_EXTENSIONS
    THEN Verdict(TRUE, "volume", Reason("volume", "volume", cur, 0))
    ELSE IF cur \in NON_ARCHIVE_EXTENSIONS
    THEN Verdict(FALSE, NonArchiveLabel(cur),
                 Reason("non_archive_extension", NonArchiveLabel(cur), cur, 0))
    ELSE Verdict(FALSE, "unknown", Reason("unknown", "unknown", cur, size))

\* an identify that looks for a magic number in a head of any length
identify_NoLengthCheck(f, p) ==
    IF ~Exists(f, p)
    THEN Verdict(FALSE, "None", Reason("missing", "None", "", 0))
    ELSE LET h == f[p].head
             cur == Lower(Suffix(Last(p)))
         IN  IF Len(h) = 0
             THEN Verdict(FALSE, "None", Reason("empty", "None", "", 0))
             ELSE IF FirstMagic(h) # 0
             THEN MagicVerdict(MAGIC_NUMBERS[FirstMagic(h)], h, cur)
             ELSE ExtensionVerdict(cur, Len(h))

\* an identify that believes an archive or volume extension before it looks
\* for a magic number
identify_ExtensionFirst(f, p) ==
    IF ~Exists(f, p)
    THEN Verdict(FALSE, "None", Reason("missing", "None", "", 0))
    ELSE LET h == f[p].head
             cur == Lower(Suffix(Last(p)))
         IN  IF Len(h) = 0
             THEN Verdict(FALSE, "None", Reason("empty", "None", "", 0))
             ELSE IF Len(h) < 4
             THEN Verdict(FALSE, "None", Reason("short", "None", "", Len(h)))
             ELSE IF ExtensionVerdict(cur, Len(h)).is_archive
             THEN ExtensionVerdict(cur, Len(h))
             ELSE IF FirstMagic(h) # 0
             THEN MagicVerdict(MAGIC_NUMBERS[FirstMagic(h)], h, cur)
             ELSE ExtensionVerdict(cur, Len(h))

\* FileAnalyzer.identify; the model's files are no longer than the 16 bytes read
identify(f, p) ==
    IF ~Exists(f, p)
    THEN Verdict(FALSE, "None", Reason("missing", "None", "", 0))
    ELSE LET h == f[p].head
             cur == Lower(Suffix(Last(p)))
         IN  IF Len(h) = 0
             THEN Verdict(FALSE, "None", Reason("empty", "None", "", 0))
             ELSE IF Len(h) < 4
             THEN Verdict(FALSE, "None", Reason("short", "None", "", Len(h)))
             ELSE IF FirstMagic(h) # 0
             THEN MagicVerdict(MAGIC_NUMBERS[FirstMagic(h)], h, cur)
             ELSE ExtensionVerdict(cur, Len(h))

\* a table in which no entry carries an extension to rename to
FirstRenamingMagic_None(h) == 0

\* index of the first entry the header starts with that has an extension
FirstRenamingMagic(h) ==
    LET hits == {i \in DOMAIN MAGIC_NUMBERS :
                    StartsWith(h, MAGIC_NUMBERS[i].magic) /\ MAGIC_NUMBERS[i].ext # "None"}
    IN  IF hits = {} THEN 0 ELSE CHOOSE i \in hits : \A j \in hits : i <= j

Msg(kind, p, to, info) == [kind |-> kind, path |-> p, to |-> to, info |-> info]

\* a fix_extension that goes by the magic number alone, whatever identify says
fix_extension_ByMagicAlone(f, p) ==
    LET cur == Lower(Suffix(Last(p)))
        keep(msgs) == [path |-> p, fs |-> f, log |-> msgs, renamed |-> FALSE]
    IN  IF ~IsFile(f, p) \/ cur \in VALID_ARCHIVE_EXTENSIONS
        THEN keep(<<>>)
        ELSE LET i == FirstRenamingMagic(f[p].head)
             IN  IF i = 0
                 THEN keep(<<Msg("keep_ext", p, NoPath, "")>>)
                 ELSE LET new_path == Child(Parent(p), WithSuffix(Last(p), MAGIC_NUMBERS[i].ext))
                      IN  IF RenameOk(f, p, new_path)
                          THEN [path |-> new_path, fs |-> MoveTree(f, p, new_path),
                                log |-> <<Msg("fixed_ext", p, new_path, MAGIC_NUMBERS[i].name)>>,
                                renamed |-> TRUE]
                          ELSE keep(<<Msg("rename_failed", p, new_path, "")>>)

\* a fix_extension that also renames an archive whose archive extension is
\* not the one its signature names
fix_extension_AlignsExtension(f, p) ==
    LET v == identify(f, p)
        cur == Lower(Suffix(Last(p)))
        keep(msgs) == [path |-> p, fs |-> f, log |-> msgs, renamed |-> FALSE]
    IN  IF ~v.is_archive
        THEN keep(<<Msg("skip_fix", p, NoPath, v.reason.kind)>>)
        ELSE LET i == FirstRenamingMagic(f[p].head)
             IN  IF i = 0
                 THEN keep(IF cur \in VALID_ARCHIVE_EXTENSIONS THEN <<>>
                           ELSE <<Msg("keep_ext", p, NoPath, "")>>)
                 ELSE IF cur = MAGIC_NUMBERS[i].ext
                 THEN keep(<<>>)
                 ELSE LET new_path == Child(Parent(p), WithSuffix(Last(p), MAGIC_NUMBERS[i].ext))
                      IN  IF RenameOk(f, p, new_path)
                          THEN [path |-> new_path, fs |-> MoveTree(f, p, new_path),
                                log |-> <<Msg("fixed_ext", p, new_path, MAGIC_NUMBERS[i].name)>>,
                                renamed |-> TRUE]
                          ELSE keep(<<Msg("rename_failed", p, new_path, "")>>)

\* FileAnalyzer.fix_extension: the path returned, the file system after it and
\* the messages it logs
fix_extension(f, p) ==
    LET v == identify(f, p)
        cur == Lower(Suffix(Last(p)))
        keep(msgs) == [path |-> p, fs |-> f, log |-> msgs, renamed |-> FALSE]
    IN  IF ~v.is_archive
        THEN keep(<<Msg("skip_fix", p, NoPath, v.reason.kind)>>)
        ELSE IF cur \in VALID_ARCHIVE_EXTENSIONS
        THEN keep(<<>>)
        ELSE LET i == FirstRenamingMagic(f[p].head)
             IN  IF i = 0
                 THEN keep(<<Msg("keep_ext", p, NoPath, "")>>)
                 ELSE LET new_path == Child(Parent(p), WithSuffix(Last(p), MAGIC_NUMBERS[i].ext))
                      IN  IF RenameOk(f, p, new_path)
                          THEN [path |-> new_path, fs |-> MoveTree(f, p, new_path),
                                log |-> <<Msg("fixed_ext", p, new_path, MAGIC_NUMBERS[i].name)>>,
                                renamed |-> TRUE]
                          ELSE keep(<<Msg("rename_failed", p, new_path, "")>>)

----------------------------------------------------------------------------
(* config/constants.py *)

MAX_RECURSION_DEPTH == 10

WINRAR_SUCCESS_CODES == {0, 1}

----------------------------------------------------------------------------
(* The scenarios: the files a run is given and what their archives hold *)

Tag(k, n) == [k |-> k, n |-> n]
Bytes(h, k, n) == [head |-> h, tag |-> Tag(k, n)]

ZipHead == <<80, 75, 3, 4>>
RarHead == <<82, 97, 114, 33, 26, 7, 0>>
TextHead == <<104, 105, 33, 10>>
JpegHead == <<255, 216, 255, 224>>
ExeHead == <<77, 90, 144, 0>>

Src == <<Dir("src")>>
Out == <<Dir("out")>>

Entry(rel, c) == [rel |-> rel, data |-> c]
Outcome(rc, pw, out) == [rc |-> rc, pw |-> pw, out |-> out]

\* the entries the outer archive A.zip may hold
AEntries ==
    { Entry(<<Nm("report", ".txt")>>, Bytes(TextHead, "doc", 1)),
      Entry(<<Nm("inner", ".zip")>>, Bytes(ZipHead, "I", 0)),
      Entry(<<Nm("data", ".bin")>>, Bytes(ZipHead, "J", 0)),
      Entry(<<Dir("sub"), Nm("report", ".txt")>>, Bytes(TextHead, "doc", 2)) }

\* what the external decoder may do with the archive of a tag: its exit code,
\* the password the archive needs ("" for none) and the files it writes
Outcomes(tag, chain) ==
    CASE tag.k = "A" ->
            {Outcome(0, "", S) : S \in {X \in SUBSET AEntries : Cardinality(X) <= MaxEntries}}
            \cup {Outcome(3, "", {})}
      [] tag.k = "B" ->
            {Outcome(1, "", {Entry(<<Nm("report", ".txt")>>, Bytes(TextHead, "doc", 3))})}
      [] tag.k = "I" ->
            { Outcome(0, "", {Entry(<<Nm("report", ".txt")>>, Bytes(TextHead, "doc", 4))}),
              Outcome(0, "", {}),
              Outcome(3, "", {}) }
      [] tag.k = "J" ->
            { Outcome(0, "pw", {Entry(<<Dir("sub"), Nm("notes", ".txt")>>,
                                      Bytes(TextHead, "doc", 5))}),
              Outcome(0, "other", {Entry(<<Nm("notes", ".txt")>>, Bytes(TextHead, "doc", 5))}) }
      [] tag.k = "chain" ->
            IF tag.n < chain
            THEN {Outcome(0, "", {Entry(<<NmN("lvl", tag.n + 1, ".zip")>>,
                                        Bytes(ZipHead, "chain", tag.n + 1))})}
            ELSE {Outcome(0, "", {Entry(<<Nm("leaf", ".txt")>>, Bytes(TextHead, "doc", 6))})}
      [] tag.k = "sfx" ->
            {Outcome(0, "", {Entry(<<Nm("readme", ".txt")>>, Bytes(TextHead, "doc", 9))})}
      [] tag.k = "self" ->
            {Outcome(0, "", {Entry(<<Nm("Q", ".zip")>>, Bytes(ZipHead, "self", 0))})}
      [] OTHER -> {Outcome(10, "", {})}

----------------------------------------------------------------------------
(* core/winrar_helper.py *)

\* the exit code of the WinRAR process for an archive and a password
ExitCode(o, pw) == IF o.pw # "" /\ pw # o.pw THEN 11 ELSE o.rc

\* WinRARHelper.extract: success is an exit code of WINRAR_SUCCESS_CODES
WinRARSuccess(rc) == rc \in WINRAR_SUCCESS_CODES

Run(via, rc) == [via |-> via, rc |-> rc]
Helped(runs, ok, msgs) == [runs |-> runs, success |-> ok, log |-> msgs]

\* method 2 of WinRARHelper.extract: winrar through the shell
ShellExtract(o, pw) ==
    LET rc == ExitCode(o, pw)
    IN  IF WinRARSuccess(rc)
        THEN Helped(<<Run("shell", rc)>>, TRUE,
                    <<Msg("try_shell", NoPath, NoPath, ""), Msg("shell_ok", NoPath, NoPath, "")>>)
        ELSE Helped(<<Run("shell", rc)>>, FALSE,
                    <<Msg("try_shell", NoPath, NoPath, ""), Msg("winrar_error", NoPath, NoPath, "")>>)

\* a helper that tries the shell after the binary returned a failure code
WinRARExtract_RetriesInShell(w, o, pw) ==
    LET rc == ExitCode(o, pw)
        sh == ShellExtract(o, pw)
    IN  IF w = "present" /\ WinRARSuccess(rc)
        THEN Helped(<<Run("path", rc)>>, TRUE, <<>>)
        ELSE IF w = "present"
        THEN Helped(<<Run("path", rc)>> \o sh.runs, sh.success,
                    <<Msg("winrar_error", NoPath, NoPath, "")>> \o sh.log)
        ELSE IF w = "broken"
        THEN Helped(<<>>, FALSE, <<Msg("launch_error", NoPath, NoPath, "")>>)
        ELSE IF w = "vanished"
        THEN Helped(sh.runs, sh.success, <<Msg("path_unusable", NoPath, NoPath, "")>> \o sh.log)
        ELSE sh

\* WinRARHelper.extract for a binary that is there and runs ("present"), is
\* there but cannot be started for another reason than FileNotFoundError
\* ("broken"), is gone when it is started ("vanished"), or is not configured or
\* not on disk ("absent"): the processes run, the result and the lines logged
WinRARExtract(w, o, pw) ==
    LET rc == ExitCode(o, pw)
        sh == ShellExtract(o, pw)
    IN  IF w = "present"
        THEN IF WinRARSuccess(rc)
             THEN Helped(<<Run("path", rc)>>, TRUE, <<>>)
             ELSE Helped(<<Run("path", rc)>>, FALSE, <<Msg("winrar_error", NoPath, NoPath, "")>>)
        ELSE IF w = "broken"
        THEN Helped(<<>>, FALSE, <<Msg("launch_error", NoPath, NoPath, "")>>)
        ELSE IF w = "vanished"
        THEN Helped(sh.runs, sh.success, <<Msg("path_unusable", NoPath, NoPath, "")>> \o sh.log)
        ELSE sh

\* the decoder's files written below output_dir (-o+ overwrites)
WriteOut(f, d, out) ==
    LET files == {d \o e.rel : e \in out}
        dirs == UNION {Prefixes(Parent(q)) : q \in files}
    IN  [q \in DOMAIN f \cup dirs \cup files |->
            IF q \in files
            THEN FileNode((CHOOSE e \in out : d \o e.rel = q).data)
            ELSE IF q \in DOMAIN f THEN f[q] ELSE DirNode]

----------------------------------------------------------------------------
(* core/extractor.py: FileExtractor._extract_recursive *)

\* the locals of one call; kids and moved record what the call did
NewFrame(file, out, depth, final) ==
    [file |-> file, out |-> out, depth |-> depth, final |-> final, pc |-> "enter",
     temp |-> NoPath, made |-> FALSE, fresh |-> FALSE, corrected |-> NoPath,
     decoded |-> FALSE, files |-> <<>>, arch |-> <<>>, non |-> <<>>, i |-> 0,
     inner |-> NoPath, kids |-> <<>>, moved |-> <<>>, snap |-> [q \in {} |-> NoTag]]

Top == stack[Len(stack)]
SetTop(fr) == [stack EXCEPT ![Len(stack)] = fr]

\* the guard one level late, and one level early
DepthExceeded_Late(depth) == depth > MAX_RECURSION_DEPTH + 1
DepthExceeded_Early(depth) == depth >= MAX_RECURSION_DEPTH

\* a recursion without its guard
DepthExceeded_Never(depth) == FALSE

\* line 126: depth > MAX_RECURSION_DEPTH
DepthExceeded(depth) == depth > MAX_RECURSION_DEPTH

\* output_dir / f"temp_extract_{depth}"
TempDir(out, depth) == Child(out, NmN("temp_extract", depth, ""))

\* output_dir / corrected_path.stem
InnerOutput(out, corrected) == Child(out, Stem(Last(corrected)))

\* what is kept of a frame that control leaves: how it left ("true", "false",
\* "raise"), at which step, whether its temp directory is still there, and the
\* depth of the frame the exception was raised in (-1 for a return)
ExitRec(fr, how, at, f2, origin) ==
    [file |-> fr.file, depth |-> fr.depth, how |-> how, at |-> at, temp |-> fr.temp,
     origin |-> origin,
     made |-> fr.made, temp_left |-> fr.made /\ Exists(f2, fr.temp),
     decoded |-> fr.decoded, nfiles |-> Len(fr.files), arch |-> fr.arch, non |-> fr.non,
     kids |-> fr.kids, moved |-> fr.moved, final |-> fr.final]

\* a caller that goes from its last child to the cleanup, past the merge
Resume_SkipMerge(parent, val) ==
    LET p == [parent EXCEPT !.kids = Append(@, val)]
    IN  IF p.i + 1 <= Len(p.arch)
        THEN [p EXCEPT !.i = @ + 1]
        ELSE [p EXCEPT !.pc = "cleanup"]

\* a caller that gives up its remaining children and its merge on a failure
Resume_AbortOnFailure(parent, val) ==
    LET p == [parent EXCEPT !.kids = Append(@, val)]
    IN  IF ~val THEN [p EXCEPT !.pc = "cleanup"]
        ELSE IF p.i + 1 <= Len(p.arch) THEN [p EXCEPT !.i = @ + 1]
        ELSE IF p.non = <<>> THEN [p EXCEPT !.pc = "cleanup"]
        ELSE [p EXCEPT !.pc = "merge", !.i = 1]

\* lines 198-201: the caller goes on after a child returned, the value dropped
Resume(parent, val) ==
    LET p == [parent EXCEPT !.kids = Append(@, val)]
    IN  IF p.i + 1 <= Len(p.arch)
        THEN [p EXCEPT !.i = @ + 1]
        ELSE IF p.non = <<>> THEN [p EXCEPT !.pc = "cleanup"]
        ELSE [p EXCEPT !.pc = "merge", !.i = 1]

\* return val from the innermost frame, left in file system f2
Return(fr, val, at, f2) ==
    /\ exits' = Append(exits, ExitRec(fr, IF val THEN "true" ELSE "false", at, f2, -1))
    /\ IF Len(stack) = 1
       THEN /\ stack' = <<>>
            /\ drv' = [drv EXCEPT !.pc = "returned", !.ret = val]
       ELSE /\ stack' = Append(SubSeq(stack, 1, Len(stack) - 2),
                               Resume(stack[Len(stack) - 1], val))
            /\ drv' = drv

\* an exception raised in the innermost frame: nothing between it and the
\* driver's try catches it
Raise(fr, at, f2) ==
    LET n == Len(stack)
        frames == [j \in 1..n |-> IF j = 1 THEN fr ELSE stack[n + 1 - j]]
    IN  /\ exits' = exits \o [j \in 1..n |-> ExitRec(frames[j], "raise", at, f2, fr.depth)]
        /\ stack' = <<>>
        /\ drv' = [drv EXCEPT !.pc = "raised"]

\* lines 126-140: the two guards, then the temp directory
Enter ==
    /\ stack # <<>> /\ Top.pc = "enter"
    /\ LET fr == Top
           final == IF fr.final = NoPath THEN fr.out ELSE fr.final
           temp == TempDir(fr.out, fr.depth)
       IN  IF DepthExceeded(fr.depth)
           THEN /\ log' = Append(log, Msg("max_depth", fr.file, NoPath, ""))
                /\ Return(fr, FALSE, "depth", fs)
                /\ fs' = fs
           ELSE IF ~Exists(fs, fr.file)
           THEN /\ log' = Append(log, Msg("not_found", fr.file, NoPath, ""))
                /\ Return(fr, FALSE, "missing", fs)
                /\ fs' = fs
           ELSE IF MkdirOk(fs, temp)
           THEN /\ fs' = Mkdir(fs, temp)
                /\ stack' = SetTop([fr EXCEPT !.final = final, !.temp = temp, !.made = TRUE,
                                              !.fresh = ~Exists(fs, temp), !.pc = "fix"])
                /\ UNCHANGED <<drv, exits, log>>
           ELSE /\ Raise([fr EXCEPT !.final = final, !.temp = temp], "mkdir_temp", fs)
                /\ UNCHANGED <<fs, log>>
    /\ UNCHANGED <<cfg, stopcall, passwords, world, running, password, calls, signals, sniff>>

\* line 143: fix_extension of the file to decode
FixInput ==
    /\ stack # <<>> /\ Top.pc = "fix"
    /\ LET r == fix_extension(fs, Top.file)
       IN  /\ fs' = r.fs
           /\ log' = log \o r.log
           /\ stack' = SetTop([Top EXCEPT !.corrected = r.path, !.pc = "decode"])
    /\ UNCHANGED <<cfg, stopcall, passwords, world, drv, running, password, calls, signals, exits, sniff>>

\* lines 146-158: the decoder, and the return on its failure
Decode ==
    /\ stack # <<>> /\ Top.pc = "decode"
    /\ LET fr == Top
           tag == fs[fr.corrected].tag
       IN  \E o \in IF tag \in DOMAIN world THEN {world[tag]} ELSE Outcomes(tag, cfg.chain) :
              LET r == WinRARExtract(cfg.winrar, o, password)
              IN  /\ world' = IF tag \in DOMAIN world THEN world ELSE (tag :> o) @@ world
                  /\ calls' = calls \o
                        [k \in DOMAIN r.runs |->
                            [path |-> fr.corrected, out |-> fr.temp, pw |-> password,
                             depth |-> fr.depth, rc |-> r.runs[k].rc, task |-> drv.t,
                             via |-> r.runs[k].via,
                             sniffed |-> identify(fs, fr.corrected).is_archive]]
                  /\ log' = log \o r.log
                  /\ IF r.success
                     THEN /\ fs' = WriteOut(fs, fr.temp, o.out)
                          /\ stack' = SetTop([fr EXCEPT !.decoded = TRUE, !.pc = "enum"])
                          /\ UNCHANGED <<drv, exits>>
                     ELSE /\ fs' = IF Exists(fs, fr.temp) THEN RmTree(fs, fr.temp) ELSE fs
                          /\ Return(fr, FALSE, "decode", fs')
    /\ UNCHANGED <<cfg, stopcall, passwords, running, password, signals, sniff>>

\* lines 161-168: the files the decoder left, and the return when there is none
Enumerate ==
    /\ stack # <<>> /\ Top.pc = "enum"
    /\ LET fr == Top
           found == FilesUnder(fs, fr.temp)
       IN  IF found = {}
           THEN /\ log' = Append(log, Msg("no_files", fr.corrected, NoPath, ""))
                /\ fs' = IF Exists(fs, fr.temp) THEN RmTree(fs, fr.temp) ELSE fs
                /\ Return(fr, FALSE, "empty", fs')
           ELSE /\ \E order \in Orders(found) :
                      stack' = SetTop([fr EXCEPT !.files = order, !.i = 1, !.pc = "classify",
                                                    !.snap = [q \in found |-> Content(fs[q])]])
                /\ UNCHANGED <<fs, log, drv, exits>>
    /\ UNCHANGED <<cfg, stopcall, passwords, world, running, password, calls, signals, sniff>>

\* where a frame goes once its archive children are done
AfterRecursion(fr) ==
    IF fr.non = <<>> THEN [fr EXCEPT !.pc = "cleanup"] ELSE [fr EXCEPT !.pc = "merge", !.i = 1]

\* a classification that takes every extracted file for an archive
ChildIsArchive_Always(f, p) == TRUE

\* lines 176-178: the verdict of identify decides the list a file goes to
ChildIsArchive(f, p) == identify(f, p).is_archive

\* lines 174-190: one turn of the loop that classifies the extracted files
Classify ==
    /\ stack # <<>> /\ Top.pc = "classify"
    /\ LET fr == Top
           f == fr.files[fr.i]
           v == identify(fs, f)
           r == fix_extension(fs, f)
           next(g) == IF g.i < Len(g.files) THEN [g EXCEPT !.i = @ + 1]
                      ELSE [g EXCEPT !.pc = "recurse_init"]
       IN  IF ChildIsArchive(fs, f)
           THEN /\ fs' = r.fs
                /\ log' = log \o r.log \o <<Msg("archive", r.path, NoPath, v.format_name)>>
                /\ stack' = SetTop(next([fr EXCEPT !.arch = Append(@, r.path)]))
           ELSE /\ fs' = fs
                /\ log' = Append(log, Msg("non_archive", f, NoPath, v.format_name))
                /\ stack' = SetTop(next([fr EXCEPT !.non = Append(@, f)]))
    /\ UNCHANGED <<cfg, stopcall, passwords, world, drv, running, password, calls, signals, exits, sniff>>

\* lines 193-196: the working directory of the archive children
RecurseInit ==
    /\ stack # <<>> /\ Top.pc = "recurse_init"
    /\ LET fr == Top
           inner == InnerOutput(fr.out, fr.corrected)
       IN  IF fr.arch = <<>>
           THEN /\ stack' = SetTop(AfterRecursion(fr))
                /\ UNCHANGED <<fs, log, drv, exits>>
           ELSE IF MkdirOk(fs, inner)
           THEN /\ fs' = Mkdir(fs, inner)
                /\ log' = Append(log, Msg("nested", fr.corrected, NoPath, ""))
                /\ stack' = SetTop([fr EXCEPT !.inner = inner, !.i = 1, !.pc = "recurse"])
                /\ UNCHANGED <<drv, exits>>
           ELSE /\ log' = Append(log, Msg("nested", fr.corrected, NoPath, ""))
                /\ Raise([fr EXCEPT !.inner = inner], "mkdir_inner", fs)
                /\ fs' = fs
    /\ UNCHANGED <<cfg, stopcall, passwords, world, running, password, calls, signals, sniff>>

\* a call that leaves final_output_dir to its default in the child
ChildFinal_Unpinned(fr) == NoPath

\* line 200: the final_output_dir handed to an archive child
ChildFinal(fr) == fr.final

\* lines 198-201: the call for one archive child
Recurse ==
    /\ stack # <<>> /\ Top.pc = "recurse"
    /\ stack' = Append(stack,
                       NewFrame(Top.arch[Top.i], Top.inner, Top.depth + 1, ChildFinal(Top)))
    /\ UNCHANGED <<cfg, stopcall, passwords, fs, world, drv, running, password, log, calls, signals, exits, sniff>>

\* a counter that is not advanced past a taken name
FreeCounter_AlwaysOne(f, dest) == 1

\* the smallest counter >= 1 for which the suffixed name is free
FreeCounter(f, dest) ==
    LET taken(c) == Exists(f, Child(Parent(dest), WithCounter(Last(dest), c)))
        n == Cardinality(DOMAIN f) + 1
    IN  CHOOSE c \in 1..n : ~taken(c) /\ \A b \in 1..(c - 1) : taken(b)

\* a merge that moves onto the destination whether it is taken or not
FileDest_Overwrite(f, dest) == dest

\* lines 236-242: the destination of a file, suffixed when it is taken
FileDest(f, dest) ==
    IF Exists(f, dest)
    THEN Child(Parent(dest), WithCounter(Last(dest), FreeCounter(f, dest)))
    ELSE dest

\* a merge that puts every file right under final_output_dir
DestPath_Flat(fr, source) == Child(fr.final, Last(source))

\* lines 210-211: final_output_dir / source_path.relative_to(temp_dir)
DestPath(fr, source) == fr.final \o RelativeTo(source, fr.temp)

\* lines 208-248: one turn of the loop that moves the non-archive files
Merge ==
    /\ stack # <<>> /\ Top.pc = "merge"
    /\ LET fr == Top
           source == fr.non[fr.i]
           dest_path == DestPath(fr, source)
           dest_parent == Parent(dest_path)
           f1 == IF dest_parent # fr.final THEN Mkdir(fs, dest_parent) ELSE fs
           target == FileDest(f1, dest_path)
           start == IF fr.i = 1 THEN <<Msg("moving", fr.corrected, NoPath, "")>> ELSE <<>>
           renamed == IF target # dest_path
                      THEN <<Msg("renamed", dest_path, target, "")>> ELSE <<>>
           next(g) == IF g.i < Len(g.non) THEN [g EXCEPT !.i = @ + 1]
                      ELSE [g EXCEPT !.pc = "cleanup"]
       IN  IF dest_parent # fr.final /\ ~MkdirOk(fs, dest_parent)
           THEN /\ log' = log \o start
                /\ Raise(fr, "mkdir_dest", fs)
                /\ fs' = fs
           ELSE IF IsDir(f1, source)
           THEN /\ fs' = MoveTree(f1, source, target)
                /\ log' = log \o start \o renamed \o <<Msg("moved_dir", source, target, "")>>
                /\ stack' = SetTop(next([fr EXCEPT !.moved = Append(@, target)]))
                /\ UNCHANGED <<drv, exits>>
           ELSE IF Exists(f1, source)
           THEN /\ fs' = MoveTree(f1, source, target)
                /\ log' = log \o start \o renamed \o <<Msg("moved", source, target, "")>>
                /\ stack' = SetTop(next([fr EXCEPT !.moved = Append(@, target)]))
                /\ UNCHANGED <<drv, exits>>
           ELSE /\ fs' = f1
                /\ log' = log \o start \o renamed
                /\ stack' = SetTop(next([fr EXCEPT !.moved = Append(@, NoPath)]))
                /\ UNCHANGED <<drv, exits>>
    /\ UNCHANGED <<cfg, stopcall, passwords, world, running, password, calls, signals, sniff>>

\* a frame that gives up with False once stop() has been called
FrameResult_StopAware(fr) == running

\* a frame whose children handed back a failure would hand it on
FrameResult_FromChildren(fr) == \A j \in DOMAIN fr.kids : fr.kids[j]

\* line 254: return True
FrameResult(fr) == TRUE

\* lines 251-254: the temp directory removed, the frame returns True
Cleanup ==
    /\ stack # <<>> /\ Top.pc = "cleanup"
    /\ fs' = IF Exists(fs, Top.temp) THEN RmTree(fs, Top.temp) ELSE fs
    /\ Return(Top, FrameResult(Top), "end", fs')
    /\ UNCHANGED <<cfg, stopcall, passwords, world, running, password, log, calls, signals, sniff>>

----------------------------------------------------------------------------
(* The drivers: FileExtractor.extract and ExtractWorker.run *)

Signal(sig, n, st) == [sig |-> sig, n |-> n, s |-> st]

\* int((idx / total_files) * 100), exact for the short lists of the model
Percent(idx, total) == (idx * 100) \div total

Task == cfg.tasks[drv.t]

\* a stop predicate that never turns true
ShouldStop_Never == FALSE

\* FileExtractor._should_stop with the worker's callback, and not self._running
ShouldStop == ~running

\* lines 75-78 of extract: the password kept, the counters reset
ExtractStart ==
    /\ cfg.driver = "extract" /\ drv.pc = "start"
    /\ password' = Task.password
    /\ drv' = [drv EXCEPT !.pc = "loop", !.k = 1, !.success_count = 0,
                          !.total_files = Len(Task.files)]
    /\ UNCHANGED <<cfg, stopcall, passwords, fs, world, stack, running, log, calls, signals, exits, sniff>>

\* lines 80-96 of extract: the stop check, then the call for the next file
ExtractLoop ==
    /\ cfg.driver = "extract" /\ drv.pc = "loop"
    /\ IF drv.k > Len(Task.files) \/ ShouldStop
       THEN /\ drv' = [drv EXCEPT !.pc = "finish"]
            /\ UNCHANGED <<stack, log, signals>>
       ELSE LET file == Task.files[drv.k]
                target == IF cfg.extract_to_source THEN Parent(file) ELSE Task.output_dir
            IN  /\ log' = Append(log, Msg("processing", file, NoPath, ""))
                /\ signals' = Append(signals,
                                 Signal("progress", Percent(drv.k - 1, drv.total_files), "file"))
                /\ stack' = <<NewFrame(file, target, 0, NoPath)>>
                /\ drv' = [drv EXCEPT !.pc = "call"]
    /\ UNCHANGED <<cfg, stopcall, passwords, fs, world, running, password, calls, exits, sniff>>

\* an extract without its except clause: the exception leaves extract
OnException_Escapes(d) == [d EXCEPT !.pc = "crashed"]

\* lines 101-102 of extract: except Exception, then the next file
OnException(d) == [d EXCEPT !.pc = "loop", !.k = @ + 1]

\* lines 96-102 of extract: the result counted, or the exception logged
ExtractAfter ==
    /\ cfg.driver = "extract" /\ drv.pc \in {"returned", "raised"}
    /\ LET file == Task.files[drv.k]
       IN  IF drv.pc = "raised"
           THEN /\ log' = Append(log, Msg("error", file, NoPath, ""))
                /\ drv' = OnException(drv)
           ELSE IF drv.ret
           THEN /\ log' = Append(log, Msg("success", file, NoPath, ""))
                /\ drv' = [drv EXCEPT !.pc = "loop", !.k = @ + 1, !.success_count = @ + 1]
           ELSE /\ log' = Append(log, Msg("failure", file, NoPath, ""))
                /\ drv' = [drv EXCEPT !.pc = "loop", !.k = @ + 1]
    /\ UNCHANGED <<cfg, stopcall, passwords, fs, world, stack, running, password, calls, signals, exits, sniff>>

\* lines 104-105 of extract
ExtractFinish ==
    /\ cfg.driver = "extract" /\ drv.pc = "finish"
    /\ signals' = Append(signals, Signal("progress", 100, "done"))
    /\ drv' = [drv EXCEPT !.pc = "done"]
    /\ UNCHANGED <<cfg, stopcall, passwords, fs, world, stack, running, password, log, calls, exits, sniff>>

\* FileExtractor has no method _extract_batch
HasExtractBatch == FALSE

RECURSIVE SumFiles(_)
SumFiles(tasks) == IF tasks = <<>> THEN 0 ELSE Len(tasks[1].files) + SumFiles(Tail(tasks))

\* lines 48-63 of run: a new FileExtractor, the totals
RunStart ==
    /\ cfg.driver = "worker" /\ drv.pc = "start"
    /\ password' = ""
    /\ drv' = [drv EXCEPT !.pc = "task", !.t = 1, !.success_count = 0, !.current_file = 0,
                          !.total_files = SumFiles(cfg.tasks)]
    /\ UNCHANGED <<cfg, stopcall, passwords, fs, world, stack, running, log, calls, signals, exits, sniff>>

\* lines 66-81 and 109-133 of run: the next task
RunTask ==
    /\ cfg.driver = "worker" /\ drv.pc = "task"
    /\ IF drv.t > Len(cfg.tasks) \/ ShouldStop
       THEN /\ drv' = [drv EXCEPT !.pc = "finish"]
            /\ password' = password
       ELSE LET pw == IF cfg.unified_password # "" THEN cfg.unified_password
                      ELSE Task.password
            IN  IF cfg.extract_to_source
                THEN /\ drv' = [drv EXCEPT !.pc = "file", !.k = 1]
                     /\ password' = password
                ELSE IF Task.output_dir # NoPath
                THEN /\ password' = IF pw # "" THEN pw ELSE password
                     /\ drv' = [drv EXCEPT !.pc = IF HasExtractBatch THEN "batch" ELSE "crashed"]
                ELSE /\ drv' = [drv EXCEPT !.t = @ + 1]
                     /\ password' = password
    /\ UNCHANGED <<cfg, stopcall, passwords, fs, world, stack, running, log, calls, signals, exits, sniff>>

\* lines 83-93 of run: the next file of a task extracted beside its source
RunFile ==
    /\ cfg.driver = "worker" /\ drv.pc = "file"
    /\ IF drv.k > Len(Task.files) \/ ShouldStop
       THEN /\ drv' = [drv EXCEPT !.pc = "task", !.t = @ + 1]
            /\ UNCHANGED <<stack, log, signals>>
       ELSE LET file == Task.files[drv.k]
            IN  /\ log' = Append(log, Msg("processing", file, NoPath, ""))
                /\ signals' = Append(signals,
                         Signal("progress", Percent(drv.current_file, drv.total_files), "task"))
                /\ stack' = <<NewFrame(file, Parent(file), 0, NoPath)>>
                /\ drv' = [drv EXCEPT !.pc = "call"]
    /\ UNCHANGED <<cfg, stopcall, passwords, fs, world, running, password, calls, exits, sniff>>

\* lines 93-108 of run: the result counted and the task's status emitted
RunAfter ==
    /\ cfg.driver = "worker" /\ drv.pc \in {"returned", "raised"}
    /\ LET file == Task.files[drv.k]
           kind == IF drv.pc = "raised" THEN "error"
                   ELSE IF drv.ret THEN "success" ELSE "failure"
           status == IF drv.pc = "raised" THEN "error"
                     ELSE IF drv.ret THEN "success" ELSE "failed"
       IN  /\ log' = Append(log, Msg(kind, file, NoPath, ""))
           /\ signals' = Append(signals, Signal("status", drv.t, status))
           /\ drv' = [drv EXCEPT !.pc = "file", !.k = @ + 1, !.current_file = @ + 1,
                                 !.success_count = IF kind = "success" THEN @ + 1 ELSE @]
    /\ UNCHANGED <<cfg, stopcall, passwords, fs, world, stack, running, password, calls, exits, sniff>>

\* lines 136-137 of run
RunFinish ==
    /\ cfg.driver = "worker" /\ drv.pc = "finish"
    /\ signals' = signals \o <<Signal("progress", 100, "done"),
                               Signal("finished", drv.success_count, "")>>
    /\ drv' = [drv EXCEPT !.pc = "done"]
    /\ UNCHANGED <<cfg, stopcall, passwords, fs, world, stack, running, password, log, calls, exits, sniff>>

\* ExtractWorker.stop, called from the GUI thread at any time; for extract
\* it is the moment the caller's stop predicate turns true (a caller that
\* cancels through FileExtractor.stop() instead does not turn it)
Stop ==
    /\ cfg.driver \in {"extract", "worker"} /\ cfg.stop_by = "worker"
    /\ running /\ drv.pc \notin {"done", "crashed"}
    /\ running' = FALSE
    /\ UNCHANGED <<cfg, stopcall, passwords, fs, world, stack, drv, password, log, calls, signals, exits, sniff>>

\* FileExtractor.stop, called by the owner of the extractor at any time
\* during extract (once in this model): lines 258-259 call the callback and
\* drop its answer, nothing is set
ExtractorStop ==
    /\ cfg.driver = "extract" /\ cfg.stop_by = "extractor"
    /\ ~stopcall.called /\ drv.pc \notin {"start", "done", "crashed"}
    /\ stopcall' = [called |-> TRUE,
                    started |-> Len(SelectSeq(log, LAMBDA m : m.kind = "processing"))]
    /\ UNCHANGED <<cfg, fs, world, stack, drv, running, password, log, calls, signals, exits,
                   sniff, passwords>>

----------------------------------------------------------------------------
(* Initial states *)

ChainRoot == Child(Src, NmN("lvl", 1, ".zip"))

ArchiveA == Child(Src, Nm("A", ".zip"))

\* the top-level files a list is drawn from; the first one does not exist
TopCandidates ==
    << Child(Src, Nm("gone", ".zip")), Child(Src, Nm("pic", ".jpg")),
       ArchiveA, Child(Src, Nm("B", ".txt")) >>

SourceFiles ==
    (ArchiveA :> FileNode(Bytes(ZipHead, "A", 0)))
    @@ (Child(Src, Nm("B", ".txt")) :> FileNode(Bytes(RarHead, "B", 0)))
    @@ (Child(Src, Nm("pic", ".jpg")) :> FileNode(Bytes(JpegHead, "pic", 0)))
    @@ (ChainRoot :> FileNode(Bytes(ZipHead, "chain", 1)))

\* what the destination holds before the run
PreChoices == {"none", "report", "sub", "stem"}
PreExisting(d, pre) ==
    CASE pre = "report" -> (Child(d, Nm("report", ".txt")) :> FileNode(Bytes(TextHead, "doc", 0)))
      [] pre = "sub" -> (Child(d, Dir("sub")) :> FileNode(Bytes(TextHead, "doc", 7)))
      [] pre = "stem" -> (Child(d, Dir("A")) :> FileNode(Bytes(TextHead, "doc", 8)))
      [] OTHER -> [q \in {} |-> DirNode]

InitFs(d, pre) ==
    PreExisting(d, pre) @@ SourceFiles @@ (Src :> DirNode) @@ (Out :> DirNode)

\* the lists of at most MaxTop candidates, in the order of TopCandidates
Ascending(s) == \A i \in 1..(Len(s) - 1) : s[i] < s[i + 1]
TopLists ==
    { [i \in DOMAIN s |-> TopCandidates[s[i]]] :
        s \in {x \in UNION {[1..n -> DOMAIN TopCandidates] : n \in 0..MaxTop} : Ascending(x)} }

NewTask(files, out, pw) == [files |-> files, output_dir |-> out, password |-> pw]

\* the task lists of the worker: the files in one task, or one task per file
TaskLists(files) ==
    { <<NewTask(files, Out, "pw")>> } \cup
    { [i \in DOMAIN files |-> NewTask(<<files[i]>>, Out, IF i = 1 THEN "pw" ELSE "")] }

Config(driver, tasks, ets, unified, chain) ==
    [driver |-> driver, tasks |-> tasks, extract_to_source |-> ets,
     unified_password |-> unified, chain |-> chain, winrar |-> "present", pre |-> "none",
     stop_by |-> "worker"]

Driver0 ==
    [pc |-> "start", t |-> 1, k |-> 1, success_count |-> 0, total_files |-> 0,
     current_file |-> 0, ret |-> FALSE]

Sniff0 ==
    [path |-> NoPath, phase |-> "idle", verdict |-> Verdict(FALSE, "None", Reason("", "", "", 0)),
     ret |-> NoPath, arg |-> NoPath, before |-> [q \in {} |-> DirNode], fixes |-> 0,
     renamed |-> FALSE]

\* FileExtractor.stop() has not been called
NoStopCall == [called |-> FALSE, started |-> 0]

InitCommon ==
    /\ world = [t \in {} |-> Outcome(0, "", {})]
    /\ stack = <<>>
    /\ drv = Driver0
    /\ running = TRUE
    /\ password = ""
    /\ log = <<>>
    /\ calls = <<>>
    /\ signals = <<>>
    /\ exits = <<>>
    /\ stopcall = NoStopCall
    /\ passwords = <<>>

\* the destination's earlier content tried with a list of files and a mode:
\* what blocks a directory of the run (PreChoices) matters only where the
\* run makes directories under the destination, a list of the archive with
\* or without the text file
PreFor(files, ets) ==
    IF \/ ets
       \/ \A i \in DOMAIN files : files[i] # ArchiveA
       \/ \E i \in DOMAIN files : files[i] \notin {TopCandidates[3], TopCandidates[4]}
    THEN {"none", "report"} ELSE PreChoices

\* FileExtractor.extract on a list of files
InitExtract ==
    \E files \in TopLists, ets \in BOOLEAN :
        \E pre \in PreFor(files, ets) :
            /\ cfg = [Config("extract", <<NewTask(files, Out, "pw")>>, ets, "", 0)
                        EXCEPT !.pre = pre]
            /\ fs = InitFs(IF ets THEN Src ELSE Out, pre)

\* ExtractWorker.run on a list of tasks
InitWorker ==
    \E files \in TopLists \ {<<>>}, ets \in BOOLEAN :
        \E tasks \in TaskLists(files), pre \in PreFor(files, TRUE) :
            /\ cfg = [Config("worker", tasks, ets, "", 0) EXCEPT !.pre = pre]
            /\ fs = InitFs(IF ets THEN Src ELSE Out, pre)

\* one list of three: a genuine ZIP, a RAR named .txt and a genuine JPEG
ScenarioFiles == <<ArchiveA, Child(Src, Nm("B", ".txt")), Child(Src, Nm("pic", ".jpg"))>>

\* FileExtractor.extract on the list of three, into an empty destination
InitScenario ==
    /\ cfg = Config("extract", <<NewTask(ScenarioFiles, Out, "pw")>>, FALSE, "", 0)
    /\ fs = InitFs(Out, "none")

\* FileExtractor.extract with a WinRAR binary that is not there or does not
\* start, on a RAR that decodes and a JPEG that does not
InitFallback ==
    \E w \in {"absent", "vanished", "broken"} :
        /\ cfg = [Config("extract",
                         <<NewTask(<<Child(Src, Nm("B", ".txt")), Child(Src, Nm("pic", ".jpg"))>>,
                                   Out, "")>>,
                         FALSE, "", 0) EXCEPT !.winrar = w]
        /\ fs = InitFs(Out, "none")

\* FileExtractor.extract on a chain of nested archives
InitChain ==
    \E n \in (MAX_RECURSION_DEPTH + 1)..ChainLen :
        /\ cfg = Config("extract", <<NewTask(<<ChainRoot>>, Out, "")>>, FALSE, "", n)
        /\ fs = InitFs(Out, "none")

\* FileExtractor.extract on the list of three by a caller that cancels with
\* FileExtractor.stop()
InitStopCall ==
    /\ cfg = [Config("extract", <<NewTask(ScenarioFiles, Out, "pw")>>, FALSE, "", 0)
                EXCEPT !.stop_by = "extractor"]
    /\ fs = InitFs(Out, "none")

\* a self-extracting archive: an executable to identify, an archive to WinRAR
SfxRoot == Child(Src, Nm("setup", ".exe"))

\* FileExtractor.extract on the self-extracting archive
InitSfx ==
    /\ cfg = Config("extract", <<NewTask(<<SfxRoot>>, Out, "")>>, FALSE, "", 0)
    /\ fs = (SfxRoot :> FileNode(Bytes(ExeHead, "sfx", 0))) @@ InitFs(Out, "none")

\* an archive that holds a copy of itself
SelfRoot == Child(Src, Nm("Q", ".zip"))

\* FileExtractor.extract on the archive that holds a copy of itself
InitSelf ==
    /\ cfg = Config("extract", <<NewTask(<<SelfRoot>>, Out, "")>>, FALSE, "", 0)
    /\ fs = (SelfRoot :> FileNode(Bytes(ZipHead, "self", 0))) @@ InitFs(Out, "none")

----------------------------------------------------------------------------
(* Direct calls of FileAnalyzer.identify and FileAnalyzer.fix_extension *)

SniffDir == <<Dir("d")>>

SniffExts ==
    {"", ".zip", ".ZIP", ".rar", ".7z", ".gz", ".bz2", ".xz", ".tar",
     ".txt", ".TXT", ".jpg", ".pdf", ".mp4", ".001", ".009", ".bin"}

\* file heads: every signature of the table, near misses, MP4, text, short files
SniffHeads ==
    { <<80, 75, 3, 4, 20, 0>>, <<80, 75, 5, 6>>, <<80, 75, 7, 8, 1>>,
      <<82, 97, 114, 33>>, <<82, 97, 114, 33, 26, 7, 0>>, <<82, 97, 114, 33, 26, 7, 1, 0>>,
      <<55, 122, 188, 175, 39, 28, 0, 4>>, <<31, 139, 8, 0>>, <<66, 90, 104, 57>>,
      <<253, 55, 122, 88, 90, 0, 0>>, <<37, 80, 68, 70, 45>>, <<80, 51, 82, 51>>,
      Mp4Mp42, Mp4Isom, <<0, 0, 0, 1, 9>>, <<0, 0, 0>>,
      TextHead, JpegHead, <<80, 75, 3>>, <<31, 139>>, <<>> }

\* the extensions fix_extension may rename to
CanonicalExts == {MAGIC_NUMBERS[i].ext : i \in DOMAIN MAGIC_NUMBERS} \ {"None"}

\* the directory of a direct call: the file, when present, and, when blocked,
\* another file at every name a rename could take; the directory may be locked
SniffFs(e, h, present, blocked, locked) ==
    LET p == Child(SniffDir, Nm("x", e))
        others == IF blocked THEN {Child(SniffDir, Nm("x", c)) : c \in CanonicalExts} \ {p}
                  ELSE {}
    IN  [q \in {SniffDir} \cup others \cup (IF present THEN {p} ELSE {}) |->
            IF q = SniffDir THEN (IF locked THEN LockedDir ELSE DirNode)
            ELSE IF q = p THEN FileNode(Bytes(h, "x", 0))
            ELSE FileNode(Bytes(TextHead, "other", 0))]

InitSniff ==
    \E e \in SniffExts, h \in SniffHeads, present \in BOOLEAN,
       blocked \in BOOLEAN, locked \in BOOLEAN :
        /\ cfg = Config("sniff", <<>>, FALSE, "", 0)
        /\ fs = SniffFs(e, h, present, blocked, locked)
        /\ sniff = [Sniff0 EXCEPT !.path = Child(SniffDir, Nm("x", e)), !.phase = "ready"]

\* FileAnalyzer.identify(path)
SniffIdentify ==
    /\ cfg.driver = "sniff" /\ sniff.phase = "ready"
    /\ sniff' = [sniff EXCEPT !.phase = "identified", !.verdict = identify(fs, sniff.path)]
    /\ UNCHANGED <<cfg, stopcall, passwords, fs, world, stack, drv, running, password, log, calls, signals, exits>>

\* FileAnalyzer.fix_extension(path), then once more on the path it returned
SniffFix ==
    /\ cfg.driver = "sniff" /\ sniff.phase # "idle" /\ sniff.fixes < 2
    /\ LET r == fix_extension(fs, sniff.path)
       IN  /\ fs' = r.fs
           /\ log' = log \o r.log
           /\ sniff' = [sniff EXCEPT !.phase = "fixed", !.fixes = @ + 1, !.path = r.path,
                                     !.ret = r.path, !.arg = sniff.path, !.before = fs,
                                     !.verdict = identify(fs, sniff.path),
                                     !.renamed = r.renamed]
    /\ UNCHANGED <<cfg, stopcall, passwords, world, stack, drv, running, password, calls, signals, exits>>

----------------------------------------------------------------------------
(* config/password_manager.py *)

\* the passwords the operations are called with; "" is the empty string
PasswordValues == {"", "a", "b"}

\* a PasswordManager built without a list
InitPasswords ==
    /\ cfg = Config("passwords", <<>>, FALSE, "", 0)
    /\ fs = [q \in {} |-> DirNode]

\* index of the first occurrence: list.index
IndexOf(list, x) == CHOOSE i \in DOMAIN list : list[i] = x /\ \A j \in 1..(i - 1) : list[j] # x

\* list.remove: the first occurrence taken out
RemoveFirst(list, x) ==
    LET i == IndexOf(list, x)
    IN  SubSeq(list, 1, i - 1) \o SubSeq(list, i + 1, Len(list))

Contains(list, x) == \E i \in DOMAIN list : list[i] = x

\* PasswordManager.add_password
AddPassword ==
    /\ cfg.driver = "passwords" /\ Len(passwords) < MaxPasswords
    /\ \E p \in PasswordValues :
           passwords' = IF p = "" \/ Contains(passwords, p) THEN passwords
                        ELSE Append(passwords, p)
    /\ UNCHANGED <<cfg, fs, world, stack, drv, running, password, log, calls, signals, exits,
                   sniff, stopcall>>

\* PasswordManager.remove_password
RemovePassword ==
    /\ cfg.driver = "passwords"
    /\ \E p \in PasswordValues :
           passwords' = IF Contains(passwords, p) THEN RemoveFirst(passwords, p) ELSE passwords
    /\ UNCHANGED <<cfg, fs, world, stack, drv, running, password, log, calls, signals, exits,
                   sniff, stopcall>>

\* PasswordManager.update_password
UpdatePassword ==
    /\ cfg.driver = "passwords"
    /\ \E old \in PasswordValues, new \in PasswordValues :
           passwords' = IF ~Contains(passwords, old) THEN passwords
                        ELSE [passwords EXCEPT ![IndexOf(passwords, old)] = new]
    /\ UNCHANGED <<cfg, fs, world, stack, drv, running, password, log, calls, signals, exits,
                   sniff, stopcall>>

\* PasswordManager.clear
ClearPasswords ==
    /\ cfg.driver = "passwords"
    /\ passwords' = <<>>
    /\ UNCHANGED <<cfg, fs, world, stack, drv, running, password, log, calls, signals, exits,
                   sniff, stopcall>>

----------------------------------------------------------------------------

Init ==
    /\ InitCommon
    /\ \/ sniff = Sniff0 /\ (InitExtract \/ InitWorker \/ InitChain \/ InitSelf
                             \/ InitScenario \/ InitFallback \/ InitStopCall
                             \/ InitSfx \/ InitPasswords)
       \/ InitSniff

Next ==
    \/ Enter \/ FixInput \/ Decode \/ Enumerate \/ Classify
    \/ RecurseInit \/ Recurse \/ Merge \/ Cleanup
    \/ ExtractStart \/ ExtractLoop \/ ExtractAfter \/ ExtractFinish
    \/ RunStart \/ RunTask \/ RunFile \/ RunAfter \/ RunFinish
    \/ Stop \/ ExtractorStop
    \/ SniffIdentify \/ SniffFix
    \/ AddPassword \/ RemovePassword \/ UpdatePassword \/ ClearPasswords

Spec == Init /\ [][Next]_vars

----------------------------------------------------------------------------
(* Properties *)

\* the frames of top-level files that control has left, in order
TopExits == SelectSeq(exits, LAMBDA e : e.depth = 0)

\* the result lines the drivers log, one per file processed
ResultMsgs == SelectSeq(log, LAMBDA m : m.kind \in {"success", "failure", "error"})

\* the finished events emitted so far
Finished == SelectSeq(signals, LAMBDA s : s.sig = "finished")

\* the result line that goes with the way a top-level frame was left
HowKind(how) ==
    CASE how = "true" -> "success"
      [] how = "false" -> "failure"
      [] OTHER -> "error"

\* the non-archive files of a frame that are still to be merged
PendingNon(fr) ==
    CASE fr.pc \in {"classify", "recurse_init", "recurse"} -> {fr.non[j] : j \in DOMAIN fr.non}
      [] fr.pc = "merge" -> {fr.non[j] : j \in fr.i..Len(fr.non)}
      [] OTHER -> {}

\* C1: every temp directory a frame of _extract_recursive created no longer
\* exists when control leaves that frame, whether the frame returns or an
\* exception raised in it or below it carries control out of it.
C1_TempDirGoneOnEveryExit ==
    \A j \in DOMAIN exits : exits[j].made => ~exits[j].temp_left

\* C2: a step of the merge loop changes nothing under final_output_dir but the
\* file it moves: every other path that exists there, present before the run or
\* merged earlier, is still there afterwards with the same content.
C2_MergeKeepsExistingFiles ==
    [][ (stack # <<>> /\ Top.pc = "merge") =>
            \A p \in DOMAIN fs :
                (IsPrefix(Top.final, p) /\ p # Top.non[Top.i]) =>
                    (p \in DOMAIN fs' /\ fs'[p] = fs[p]) ]_vars

\* a merge met a taken destination: the file that was there and the incoming
\* file, under its suffixed name, both exist with different content
C2_Witness ==
    \E j \in DOMAIN log :
        /\ log[j].kind = "renamed"
        /\ IsFile(fs, log[j].path) /\ IsFile(fs, log[j].to)
        /\ fs[log[j].path] # fs[log[j].to]

\* C3: fix_extension called on a file identify classifies as non-archive
\* returns the path it was given and leaves the file system as it was; and in
\* the orchestrator every extracted file classified non-archive is, until its
\* merge, still at the path the decoder wrote it to with the same content.
C3_NonArchiveNeverRenamed ==
    /\ (sniff.phase = "fixed" /\ ~sniff.verdict.is_archive) =>
           (sniff.ret = sniff.arg /\ fs = sniff.before)
    /\ \A j \in DOMAIN stack :
           \A p \in PendingNon(stack[j]) :
               IsFile(fs, p) /\ Content(fs[p]) = stack[j].snap[p]

\* fix_extension has run on a file that is not an archive although its head
\* starts with a magic number of the table and its extension is another one
C3_Witness ==
    /\ sniff.phase = "fixed" /\ ~sniff.verdict.is_archive
    /\ IsFile(fs, sniff.arg)
    /\ FirstRenamingMagic(fs[sniff.arg].head) # 0
    /\ Lower(Suffix(Last(sniff.arg))) #
           MAGIC_NUMBERS[FirstRenamingMagic(fs[sniff.arg].head)].ext

\* C4: no exception escapes ExtractWorker.run, the finished event is emitted at
\* most once, and a run that has ended has emitted it, as its last event.
C4_RunEmitsFinishedOnce ==
    cfg.driver = "worker" =>
        /\ drv.pc # "crashed"
        /\ Len(Finished) <= 1
        /\ drv.pc = "done" =>
               (Len(Finished) = 1 /\ signals[Len(signals)].sig = "finished")

\* C5: in extract every top-level file processed so far has one result line
\* with its own path, "error" exactly when an exception left its frame;
\* success_count counts the files whose frame returned true and no others;
\* no exception leaves extract; and a run that was not stopped ends with a
\* result line for every file of the list.
C5_ExtractContainsFileErrors ==
    cfg.driver = "extract" =>
        LET files == cfg.tasks[1].files
            tops == TopExits
            res == ResultMsgs
        IN  /\ drv.pc # "crashed"
            /\ Len(res) <= Len(tops) /\ Len(tops) <= Len(res) + 1
            /\ Len(tops) <= Len(files)
            /\ \A j \in DOMAIN res :
                   /\ tops[j].file = files[j]
                   /\ res[j].path = files[j]
                   /\ res[j].kind = HowKind(tops[j].how)
            /\ drv.success_count = Cardinality({j \in DOMAIN res : res[j].kind = "success"})
            /\ (drv.pc = "done" /\ running) => Len(res) = Len(files)

\* extract has ended after an exception in a file that was not the last one
C5_Witness ==
    /\ cfg.driver = "extract" /\ drv.pc = "done"
    /\ \E j \in DOMAIN ResultMsgs :
           /\ ResultMsgs[j].kind = "error"
           /\ j < Len(ResultMsgs)
           /\ drv.success_count = Cardinality({k \in DOMAIN ResultMsgs :
                                                   ResultMsgs[k].kind = "success"})

\* the entries of the magic table that stand for an archive format
ArchiveEntries ==
    {i \in DOMAIN MAGIC_NUMBERS : MAGIC_NUMBERS[i].ext \in VALID_ARCHIVE_EXTENSIONS}

\* the canonical extensions the table gives under a format name
ExtsOfFormat(name) ==
    {MAGIC_NUMBERS[i].ext : i \in {k \in DOMAIN MAGIC_NUMBERS : MAGIC_NUMBERS[k].name = name}}

\* C6: identify on an existing file of at least 4 bytes whose head starts with
\* an archive signature of the table answers is_archive = TRUE, names a format
\* of the signature's canonical extension, and its reason flags a mismatch
\* exactly when the file's extension (lower-cased) is not that extension.
C6_ArchiveSignatureDecides ==
    (sniff.phase = "identified" /\ IsFile(fs, sniff.path) /\ Len(fs[sniff.path].head) >= 4) =>
        \A i \in ArchiveEntries :
            StartsWith(fs[sniff.path].head, MAGIC_NUMBERS[i].magic) =>
                LET v == sniff.verdict
                    canon == MAGIC_NUMBERS[i].ext
                    cur == Lower(Suffix(Last(sniff.path)))
                IN  /\ v.is_archive
                    /\ ExtsOfFormat(v.format_name) = {canon}
                    /\ v.reason.fmt = v.format_name
                    /\ (cur # canon) <=> (v.reason.kind = "magic_mismatch")
                    /\ (cur # canon) => v.reason.ext = cur

\* identify has answered for a file with an archive signature under the
\* extension of a text file
C6_Witness ==
    /\ sniff.phase = "identified" /\ IsFile(fs, sniff.path)
    /\ \E i \in ArchiveEntries : StartsWith(fs[sniff.path].head, MAGIC_NUMBERS[i].magic)
    /\ Suffix(Last(sniff.path)) = ".txt"
    /\ sniff.verdict.is_archive
    /\ sniff.verdict.reason.kind = "magic_mismatch"

Levels(recs, keep(_)) == {recs[j].depth + 1 : j \in {k \in DOMAIN recs : keep(recs[k])}}

\* C8 as the specification states it: of a chain of 11 nested archives the
\* levels 1 to 10 are decoded and succeed and the 11th fails by the depth guard.
C8_EleventhLevelFails ==
    (cfg.chain = MAX_RECURSION_DEPTH + 1 /\ drv.pc = "done" /\ exits # <<>>) =>
        /\ Levels(calls, LAMBDA c : TRUE) = 1..MAX_RECURSION_DEPTH
        /\ Levels(exits, LAMBDA e : e.how = "true") = 1..MAX_RECURSION_DEPTH
        /\ Levels(exits, LAMBDA e : e.how = "false" /\ e.at = "depth") =
               {MAX_RECURSION_DEPTH + 1}

\* C8: the top-level file being at depth 0, a chain of nested archives is
\* decoded down to level MAX_RECURSION_DEPTH + 1 = 11, every one of these levels
\* once and with success; a chain of 11 is decoded whole, and of a longer chain
\* only the 12th level fails, by the depth guard, and nothing below it is met.
C8_TwelfthLevelFails ==
    (cfg.chain > 0 /\ drv.pc = "done" /\ exits # <<>>) =>
        LET last == IF cfg.chain <= MAX_RECURSION_DEPTH THEN cfg.chain
                    ELSE MAX_RECURSION_DEPTH + 1
            beyond == IF cfg.chain > last THEN {last + 1} ELSE {}
        IN  /\ Len(calls) = last
            /\ \A j \in DOMAIN calls :
                   /\ calls[j].depth + 1 = j
                   /\ Last(calls[j].path) = NmN("lvl", j, ".zip")
                   /\ WinRARSuccess(calls[j].rc)
            /\ Levels(exits, LAMBDA e : e.how = "true") = 1..last
            /\ Levels(exits, LAMBDA e : e.how # "true") = beyond
            /\ \A j \in DOMAIN exits :
                   exits[j].how # "true" => (exits[j].how = "false" /\ exits[j].at = "depth")
            /\ Len(exits) = last + Cardinality(beyond)

\* a chain of 12 has been extracted: its 11th level was decoded, its 12th was not
C8_Witness ==
    /\ cfg.chain = MAX_RECURSION_DEPTH + 2 /\ drv.pc = "done"
    /\ \E j \in DOMAIN calls : calls[j].depth = MAX_RECURSION_DEPTH
    /\ \E j \in DOMAIN exits :
           /\ exits[j].depth = MAX_RECURSION_DEPTH + 1
           /\ exits[j].file # NoPath /\ Last(exits[j].file) = NmN("lvl", MAX_RECURSION_DEPTH + 2, ".zip")
           /\ exits[j].at = "depth"

\* C9: a frame of _extract_recursive that returns returns True exactly when
\* its own decode succeeded and its temp directory then held at least one
\* file, whatever its archive children returned.
C9_OwnDecodeDecides ==
    \A j \in DOMAIN exits :
        exits[j].how # "raise" =>
            ((exits[j].how = "true") <=> (exits[j].decoded /\ exits[j].nfiles > 0))

\* a frame returned True although one of its archive children returned False
C9_Witness ==
    \E j \in DOMAIN exits :
        /\ exits[j].how = "true"
        /\ \E k \in DOMAIN exits[j].kids : ~exits[j].kids[k]

\* C10: whatever its archive children return, a frame recurses into every one
\* of them before it merges, and a frame that returns True has moved every one
\* of its non-archive files to a path under final_output_dir.
C10_ChildFailureAbortsNothing ==
    /\ \A j \in DOMAIN stack :
           LET fr == stack[j]
           IN  /\ Len(fr.kids) <= Len(fr.arch)
               /\ fr.pc \in {"merge", "cleanup"} => Len(fr.kids) = Len(fr.arch)
               /\ fr.pc = "cleanup" => Len(fr.moved) = Len(fr.non)
    /\ \A j \in DOMAIN exits :
           LET e == exits[j]
           IN  /\ (e.how = "true" \/ (e.at = "mkdir_dest" /\ e.origin = e.depth)) =>
                      Len(e.kids) = Len(e.arch)
               /\ e.how = "true" =>
                      /\ Len(e.moved) = Len(e.non)
                      /\ \A k \in DOMAIN e.moved :
                             e.moved[k] # NoPath /\ IsPrefix(e.final, e.moved[k])

\* a frame returned after an archive child of it failed and after it went on
\* to another archive child or to the merge of a non-archive file
C10_Witness ==
    \E j \in DOMAIN exits :
        LET e == exits[j]
        IN  /\ e.how = "true"
            /\ \E k \in DOMAIN e.kids : ~e.kids[k] /\ (k < Len(e.kids) \/ e.moved # <<>>)

\* C11: an exception raised in a nested frame takes control out of that frame
\* only: no frame above it is left by it, and the top-level file, whose own
\* decode succeeded, gets the result line "success".
C11_NestedErrorStaysInItsBranch ==
    /\ \A j \in DOMAIN exits :
           (exits[j].how = "raise" /\ exits[j].origin > 0) =>
               exits[j].depth = exits[j].origin
    /\ \A j \in DOMAIN ResultMsgs :
           (j <= Len(TopExits) /\ TopExits[j].origin > 0) => ResultMsgs[j].kind = "success"

\* the root extract computes for a top-level file (lines 90-93)
RootOf(file) == IF cfg.extract_to_source THEN Parent(file) ELSE Task.output_dir

\* the top-level file of the tree the j-th exit record belongs to
TreeTop(j) ==
    LET later == {k \in j..Len(exits) : exits[k].depth = 0}
    IN  IF later = {} THEN stack[1].file
        ELSE exits[CHOOSE k \in later : \A m \in later : k <= m].file

\* C12: in every frame of the tree of one top-level file, once past the
\* default of line 136, final_output_dir is the root computed for that file
\* (the destination, or the file's parent with extract_to_source), and every
\* file a frame of the tree has moved went to a path under that root.
C12_FinalOutputDirPinned ==
    /\ \A j \in DOMAIN stack :
           LET fr == stack[j]
               root == RootOf(stack[1].file)
           IN  /\ (fr.depth > 0 \/ fr.pc # "enter") => fr.final = root
               /\ \A k \in DOMAIN fr.moved :
                      fr.moved[k] # NoPath => IsPrefix(root, fr.moved[k])
    /\ \A j \in DOMAIN exits :
           LET e == exits[j]
               root == RootOf(TreeTop(j))
           IN  /\ (e.depth > 0 \/ e.at \notin {"depth", "missing"}) => e.final = root
               /\ \A k \in DOMAIN e.moved :
                      e.moved[k] # NoPath => IsPrefix(root, e.moved[k])

\* a nested frame has merged a file, in a run that extracts beside the source
C12_Witness ==
    /\ cfg.extract_to_source
    /\ \E j \in DOMAIN exits :
           /\ exits[j].depth >= 1 /\ exits[j].moved # <<>>
           /\ exits[j].final = Src
           /\ IsPrefix(Src, exits[j].moved[1])

\* the line a frame logs when it returns False at a step (for the decoder:
\* the line of its exit code, or of the launch that failed)
FailKind(at) ==
    CASE at = "depth" -> "max_depth"
      [] at = "missing" -> "not_found"
      [] at = "decode" -> "winrar_error"
      [] at = "empty" -> "no_files"
      [] OTHER -> "none"

Suffixed(dest, n) == Child(Parent(dest), WithCounter(Last(dest), n))

\* what one turn of the merge loop does with the destination of its file
MergeStepRenames ==
    LET fr == Top
        source == fr.non[fr.i]
        dest == fr.final \o RelativeTo(source, fr.temp)
        new == SubSeq(log', Len(log) + 1, Len(log'))
    IN  (Top.pc = "merge" /\ Len(stack') = Len(stack) /\ stack' # stack) =>
            IF Exists(fs, dest)
            THEN \E n \in 1..(Cardinality(DOMAIN fs) + 1) :
                     /\ ~Exists(fs, Suffixed(dest, n))
                     /\ \A b \in 1..(n - 1) : Exists(fs, Suffixed(dest, b))
                     /\ IsFile(fs', Suffixed(dest, n))
                     /\ Content(fs'[Suffixed(dest, n)]) = Content(fs[source])
                     /\ fs'[dest] = fs[dest]
                     /\ \E k \in DOMAIN new : new[k] = Msg("renamed", dest, Suffixed(dest, n), "")
            ELSE /\ IsFile(fs', dest)
                 /\ Content(fs'[dest]) = Content(fs[source])
                 /\ \A k \in DOMAIN new : new[k].kind # "renamed"

\* two archives that each hold report.txt and nothing else were extracted into
\* an empty destination
TwoReports ==
    /\ cfg.driver = "extract" /\ ~cfg.extract_to_source /\ drv.pc = "done"
    /\ cfg.tasks[1].files = <<ArchiveA, Child(Src, Nm("B", ".txt"))>>
    /\ drv.success_count = 2
    /\ Tag("A", 0) \in DOMAIN world
    /\ world[Tag("A", 0)].out = {Entry(<<Nm("report", ".txt")>>, Bytes(TextHead, "doc", 1))}
    /\ \A p \in DOMAIN fs : fs[p].tag \notin {Tag("doc", 0), Tag("doc", 7), Tag("doc", 8)}

\* C14: a file whose merge destination exists is moved to <stem>_<N><ext> in the
\* same directory, N the smallest positive integer whose name is free, the
\* file that was there is left as it is and the rename is logged with both
\* names; a file whose destination is free is moved there without such a
\* line; and two archives that each hold only report.txt, extracted into an
\* empty destination, leave report.txt and report_1.txt with their contents.
C14_CollisionTakesSmallestFreeSuffix ==
    /\ [][stack # <<>> => MergeStepRenames]_vars
    /\ [](TwoReports =>
            /\ IsFile(fs, Child(Out, Nm("report", ".txt")))
            /\ Content(fs[Child(Out, Nm("report", ".txt"))]) = Bytes(TextHead, "doc", 1)
            /\ IsFile(fs, Child(Out, NmN("report", 1, ".txt")))
            /\ Content(fs[Child(Out, NmN("report", 1, ".txt"))]) = Bytes(TextHead, "doc", 3)
            /\ \E k \in DOMAIN log :
                   log[k] = Msg("renamed", Child(Out, Nm("report", ".txt")),
                                Child(Out, NmN("report", 1, ".txt")), ""))

\* the two archives with report.txt have been extracted into one destination
C14_Witness ==
    /\ TwoReports
    /\ IsFile(fs, Child(Out, NmN("report", 1, ".txt")))

\* C15: when the directory a frame's file lies in already exists under
\* final_output_dir, not made by a merge of this frame, the turn of the merge
\* loop puts nothing into that directory: the incoming directory goes under
\* another name.
C15_ExistingDirectoryReceivesNothing ==
    [][ stack # <<>> =>
          LET fr == Top
              source == fr.non[fr.i]
              dest_parent == Parent(fr.final \o RelativeTo(source, fr.temp))
          IN  ( /\ fr.pc = "merge" /\ Len(stack') = Len(stack) /\ stack' # stack
                /\ dest_parent # fr.final
                /\ IsDir(fs, dest_parent)
                /\ \A k \in DOMAIN fr.moved : ~IsPrefix(dest_parent, fr.moved[k]) ) =>
                  FilesUnder(fs', dest_parent) = FilesUnder(fs, dest_parent) ]_vars

\* C16: once stop has been requested and no top-level file is in progress, no
\* step of extract or of the worker starts a frame, touches the file system or
\* calls the decoder: the file the check precedes and every later file of every
\* task are left alone, and what was merged stays where it is.
C16_NothingAfterCancellation ==
    [][ (~running /\ stack = <<>> /\ drv.pc \notin {"returned", "raised"}) =>
            (stack' = <<>> /\ fs' = fs /\ calls' = calls /\ exits' = exits) ]_vars

\* a run has ended after a stop that came between two top-level files: one was
\* extracted and merged, a later one was never started
C16_Witness ==
    /\ ~running /\ drv.pc = "done"
    /\ Len(TopExits) >= 1
    /\ Len(TopExits) < SumFiles(cfg.tasks)
    /\ \E j \in DOMAIN exits :
           exits[j].moved # <<>> /\ IsFile(fs, exits[j].moved[1])

\* C17: after stop() has been called while a top-level file is in progress,
\* the frames go on as they would have: a frame that reaches its cleanup is
\* left with True, with its temp directory removed, every archive child
\* recursed into and every non-archive file moved; the driver still counts the
\* file and logs its result; only the check before the next file ends the run.
C17_StopDoesNotInterruptAFile ==
    [][ ~running =>
          /\ stack # <<>> => (drv.pc = "call" /\ (stack' # <<>> => drv' = drv))
          /\ (stack # <<>> /\ stack' # stack /\ Top.pc = "cleanup") =>
                 LET e == exits'[Len(exits')]
                 IN  /\ Len(exits') = Len(exits) + 1
                     /\ e.how = "true" /\ e.made /\ ~e.temp_left
                     /\ ~Exists(fs', e.temp)
                     /\ Len(e.kids) = Len(e.arch)
                     /\ Len(e.moved) = Len(e.non)
          /\ (drv.pc = "returned" /\ drv' # drv) =>
                 /\ drv'.pc \in {"loop", "file"}
                 /\ drv'.success_count = drv.success_count + (IF drv.ret THEN 1 ELSE 0)
                 /\ Len(log') = Len(log) + 1
                 /\ log'[Len(log')].kind = (IF drv.ret THEN "success" ELSE "failure") ]_vars

\* stop() was called while a top-level file was in progress, and a nested frame
\* of that file has since merged its files and reached its cleanup
C17_Witness ==
    /\ ~running /\ stack # <<>>
    /\ Top.depth >= 1 /\ Top.pc = "cleanup"
    /\ Top.moved # <<>> /\ IsFile(fs, Top.moved[1])

\* the password a task's files are to be decoded with (lines 72-76 of run)
EffectivePassword(t) ==
    IF cfg.unified_password # "" THEN cfg.unified_password ELSE cfg.tasks[t].password

\* C18: every call of the decoder, at any depth, is given the effective
\* password of the task whose file is being processed.
C18_DecoderGetsTaskPassword ==
    \A j \in DOMAIN calls : calls[j].pw = EffectivePassword(calls[j].task)

\* the statuses emitted for a task so far, in order
StatusOf(t) == SelectSeq(signals, LAMBDA s : s.sig = "status" /\ s.n = t)

\* the status that sums up a task of n files of which succ succeeded
Rollup(succ, n) ==
    IF succ = n THEN "success" ELSE IF succ > 0 THEN "partial" ELSE "failed"

\* C19: once every file of a task has been processed, the last status emitted
\* for the task is "success" when all of its files succeeded, "partial" when
\* some did and "failed" when none did.
C19_LastStatusIsRollup ==
    cfg.driver = "worker" =>
        \A t \in DOMAIN cfg.tasks :
            LET st == StatusOf(t)
                n == Len(cfg.tasks[t].files)
                succ == Cardinality({k \in DOMAIN st : st[k].s = "success"})
            IN  (n > 0 /\ Len(st) = n) => st[n].s = Rollup(succ, n)

\* C20: when no frame of the run has been left by an exception and no frame
\* is in progress, no directory named temp_extract_<depth> exists anywhere:
\* not under the destination, not under a source directory, not under the
\* working directories of nested archives.
C20_NoTempDirAfterCleanRun ==
    (stack = <<>> /\ \A j \in DOMAIN exits : exits[j].how # "raise") =>
        \A p \in DOMAIN fs : Last(p).base # "temp_extract"

\* extract has ended, without an exception, after two top-level files, a
\* nested archive that failed and a frame that returned True
C20_Witness ==
    /\ cfg.driver = "extract" /\ drv.pc = "done"
    /\ Len(TopExits) >= 2
    /\ \A j \in DOMAIN exits : exits[j].how # "raise"
    /\ \E j \in DOMAIN exits : exits[j].depth >= 1 /\ exits[j].made /\ exits[j].how = "false"
    /\ \E j \in DOMAIN exits : exits[j].made /\ exits[j].how = "true"

\* the three files of the end-to-end scenario
ScenarioZip == ArchiveA
ScenarioRar == Child(Src, Nm("B", ".txt"))
ScenarioRarFixed == Child(Src, Nm("B", ".rar"))
ScenarioJpg == Child(Src, Nm("pic", ".jpg"))

\* extract was given exactly the three files, in some order
ThreeFileRun ==
    /\ cfg.driver = "extract" /\ cfg.chain = 0
    /\ Len(cfg.tasks[1].files) = 3
    /\ {cfg.tasks[1].files[i] : i \in 1..3} = {ScenarioZip, ScenarioRar, ScenarioJpg}

\* C21: extract on a genuine ZIP, a RAR named .txt and a genuine JPEG, into a
\* directory that holds nothing, not stopped, the ZIP decoding to a file:
\* the count returned is 2; the JPEG was judged not an archive and is still
\* there under its name with its content; the RAR is at B.rar when the
\* decoder is about to run on it, and every decoder call for it names B.rar.
C21_ThreeFileScenario ==
    ThreeFileRun =>
        /\ \A j \in DOMAIN stack :
              (stack[j].file = ScenarioRar /\ stack[j].pc = "decode") =>
                  /\ stack[j].corrected = ScenarioRarFixed
                  /\ IsFile(fs, ScenarioRarFixed) /\ ~Exists(fs, ScenarioRar)
        /\ \A c \in DOMAIN calls : calls[c].path # ScenarioRar
        /\ fs[ScenarioJpg] = SourceFiles[ScenarioJpg]
        /\ \A q \in DOMAIN fs :
              (Last(q).base = "pic" /\ fs[q].kind = "file") => q = ScenarioJpg
        /\ (/\ drv.pc = "done" /\ running /\ cfg.pre = "none"
            /\ Tag("A", 0) \in DOMAIN world
            /\ world[Tag("A", 0)].rc = 0 /\ world[Tag("A", 0)].out # {})
           => /\ drv.success_count = 2
              /\ \E c \in DOMAIN calls : calls[c].path = ScenarioRarFixed /\ calls[c].depth = 0
              /\ \E m \in DOMAIN log :
                    log[m].kind = "skip_fix" /\ log[m].path = ScenarioJpg
              /\ ~identify(fs, ScenarioJpg).is_archive

\* the run of the three files has ended with a count of 2, B.rar decoded
C21_Witness ==
    /\ ThreeFileRun /\ drv.pc = "done" /\ running
    /\ drv.success_count = 2
    /\ \A j \in DOMAIN exits : exits[j].how # "raise"
    /\ Len(TopExits) = 3
    /\ \E c \in DOMAIN calls : calls[c].path = ScenarioRarFixed /\ WinRARSuccess(calls[c].rc)
    /\ \E c \in DOMAIN calls : calls[c].path = ScenarioJpg /\ ~WinRARSuccess(calls[c].rc)

\* the exits of top-level frames whose archive held two nested archives, one
\* of which decoded and returned True and the other failed in the decoder
PartialPairs ==
    {j \in DOMAIN exits :
        /\ exits[j].depth = 0 /\ exits[j].how = "true"
        /\ Len(exits[j].arch) = 2 /\ Len(exits[j].kids) = 2
        /\ exits[j].kids[1] # exits[j].kids[2]
        /\ \E c \in DOMAIN calls :
              calls[c].depth = 1 /\ calls[c].path \in {exits[j].arch[1], exits[j].arch[2]}
              /\ calls[c].rc = 11}

\* the files a nested frame moved, of the children of a top-level exit
MovedByChildren(j) ==
    UNION {{exits[k].moved[m] : m \in DOMAIN exits[k].moved} :
              k \in {x \in DOMAIN exits : exits[x].depth = 1 /\ exits[x].how = "true" /\ x < j}}

\* C22: an outer archive with two nested archives, one decodable and one with a
\* wrong password, once extract has logged the outer file's result: the outer
\* file is logged as a success, the files of the decodable nested archive are
\* under final_output_dir, exactly one failure line was logged for the nested
\* pair and exactly one success line names a nested archive.
C22_NestedPairLogged ==
    \A j \in PartialPairs :
        (cfg.driver = "extract" /\ drv.pc = "done" /\ Len(cfg.tasks[1].files) = 1) =>
            LET e == exits[j]
                nested == {e.arch[1], e.arch[2]}
            IN  /\ \E m \in DOMAIN log : log[m].kind = "success" /\ log[m].path = e.file
                /\ MovedByChildren(j) # {}
                /\ \A q \in MovedByChildren(j) : IsFile(fs, q) /\ IsPrefix(e.final, q)
                /\ Cardinality({m \in DOMAIN log :
                        log[m].kind \in {"failure", "error", "winrar_error"}}) = 1
                /\ Cardinality({m \in DOMAIN log :
                        log[m].kind = "success" /\ log[m].path \in nested}) = 1

\* what a direct call of identify was given: the cause of a fail-fast return,
\* or "" when the file has at least 4 bytes
FailFastCause ==
    IF ~Exists(fs, sniff.path) THEN "missing"
    ELSE IF Len(fs[sniff.path].head) = 0 THEN "empty"
    ELSE IF Len(fs[sniff.path].head) < 4 THEN "short"
    ELSE ""

\* C23: identify on a missing file, on a zero-byte file and on a file of 1 to
\* 3 bytes returns is_archive = false with no format, and its reason tells the
\* three causes apart and from every other verdict, whatever the extension.
C23_FailFastReasons ==
    (cfg.driver = "sniff" /\ sniff.phase = "identified") =>
        LET v == sniff.verdict
        IN  /\ FailFastCause # "" =>
                  /\ ~v.is_archive /\ v.format_name = "None"
                  /\ v.reason.kind = FailFastCause
                  /\ v.reason.ext = ""
            /\ FailFastCause = "" => v.reason.kind \notin {"missing", "empty", "short"}

\* identify has returned for a two-byte file that is the GZIP signature and
\* carries an archive extension
C23_Witness ==
    /\ cfg.driver = "sniff" /\ sniff.phase = "identified"
    /\ IsFile(fs, sniff.path) /\ fs[sniff.path].head = <<31, 139>>
    /\ Suffix(Last(sniff.path)) = ".gz"
    /\ sniff.verdict.reason.kind = "short"

\* the name a direct call of fix_extension would rename its argument to, in
\* the file system it was called in: NoPath when it attempts no rename
RenameTarget ==
    LET f == sniff.before
        p == sniff.arg
    IN  IF ~identify(f, p).is_archive
           \/ Lower(Suffix(Last(p))) \in VALID_ARCHIVE_EXTENSIONS
           \/ \A i \in DOMAIN MAGIC_NUMBERS :
                 ~StartsWith(f[p].head, MAGIC_NUMBERS[i].magic) \/ MAGIC_NUMBERS[i].ext = "None"
        THEN NoPath
        ELSE LET i == CHOOSE k \in DOMAIN MAGIC_NUMBERS :
                        /\ StartsWith(f[p].head, MAGIC_NUMBERS[k].magic)
                        /\ MAGIC_NUMBERS[k].ext # "None"
                        /\ \A j \in 1..(k - 1) :
                              ~StartsWith(f[p].head, MAGIC_NUMBERS[j].magic)
                              \/ MAGIC_NUMBERS[j].ext = "None"
             IN  Child(Parent(p), WithSuffix(Last(p), MAGIC_NUMBERS[i].ext))

\* the rename of the last direct call could not be done: the target name is
\* taken, or the directory does not permit renames
RenameRefused ==
    /\ cfg.driver = "sniff" /\ sniff.phase = "fixed"
    /\ RenameTarget # NoPath
    /\ (Exists(sniff.before, RenameTarget) \/ sniff.before[Parent(sniff.arg)] = LockedDir)

\* C24: when the rename fix_extension attempts is refused, the call returns
\* the path it was given, the file system is as it was (the file under its
\* name, the file at the target name with its content), and the last line
\* logged is the rename-failure warning for that file.
C24_RenameFailureIsContained ==
    RenameRefused =>
        /\ sniff.ret = sniff.arg /\ ~sniff.renamed
        /\ fs = sniff.before
        /\ IsFile(fs, sniff.arg)
        /\ Exists(sniff.before, RenameTarget) => fs[RenameTarget] = sniff.before[RenameTarget]
        /\ log # <<>>
        /\ log[Len(log)] = Msg("rename_failed", sniff.arg, RenameTarget, "")

\* a RAR named .txt could not be renamed because x.rar exists
C24_Witness ==
    /\ RenameRefused /\ sniff.fixes = 1
    /\ Suffix(Last(sniff.arg)) = ".txt"
    /\ RenameTarget = Child(SniffDir, Nm("x", ".rar"))
    /\ IsFile(fs, RenameTarget) /\ fs[Parent(sniff.arg)] = DirNode
    /\ sniff.ret = sniff.arg

\* identify has returned for a file of at least 4 bytes whose head starts
\* with no signature of the table
NoMagicCall ==
    /\ cfg.driver = "sniff" /\ sniff.phase = "identified"
    /\ IsFile(fs, sniff.path) /\ Len(fs[sniff.path].head) >= 4
    /\ \A i \in DOMAIN MAGIC_NUMBERS : ~StartsWith(fs[sniff.path].head, MAGIC_NUMBERS[i].magic)

\* C25: with no signature matching, the verdict follows the lower-cased
\* extension: an archive extension gives is_archive with that format, a volume
\* extension .001 to .009 gives is_archive, an extension of the non-archive
\* table gives not-an-archive with the table's file type, and anything else
\* gives not-an-archive, 'unknown', the reason carrying extension and size.
C25_ExtensionFallback ==
    NoMagicCall =>
        LET v == sniff.verdict
            cur == Lower(Suffix(Last(sniff.path)))
            size == Len(fs[sniff.path].head)
        IN  IF cur \in {".zip", ".rar", ".7z", ".tar", ".gz", ".bz2", ".xz"}
            THEN v.is_archive /\ v.format_name = ExtFormat(cur)
                 /\ v.reason.kind = "extension_only" /\ v.reason.ext = cur
            ELSE IF cur \in VOLUME_EXTENSIONS
            THEN v.is_archive /\ v.format_name = "volume" /\ v.reason.ext = cur
            ELSE IF cur \in NON_ARCHIVE_EXTENSIONS
            THEN ~v.is_archive /\ v.format_name = NonArchiveLabel(cur)
                 /\ v.format_name # "None" /\ v.reason.ext = cur
            ELSE ~v.is_archive /\ v.format_name = "unknown"
                 /\ v.reason = Reason("unknown", "unknown", cur, size)

\* identify has returned 'unknown' for a four-byte file named x.bin
C25_Witness ==
    /\ NoMagicCall
    /\ Suffix(Last(sniff.path)) = ".bin"
    /\ sniff.verdict = Verdict(FALSE, "unknown", Reason("unknown", "unknown", ".bin", 4))

\* a direct call of fix_extension has returned for a file identify confirms
\* as an archive
FixedAnArchive ==
    /\ cfg.driver = "sniff" /\ sniff.phase = "fixed"
    /\ identify(sniff.before, sniff.arg).is_archive

\* the entries of the table the head of the file starts with that name an
\* archive format
ArchiveHits(h) == {i \in ArchiveEntries : StartsWith(h, MAGIC_NUMBERS[i].magic)}

\* C26: fix_extension on a confirmed archive.  Under one of the seven archive
\* extensions it returns the path it was given and changes nothing, whatever
\* format the content is.  Under any other extension, when the head starts
\* with an archive signature and the rename is not refused, the file is moved
\* to the same name with the canonical extension of the format identify
\* reported, that path is returned, the old path is gone and nothing else in
\* the directory changes.
C26_FixExtensionRenamesToCanonical ==
    FixedAnArchive =>
        LET f == sniff.before
            p == sniff.arg
            cur == Lower(Suffix(Last(p)))
            v == identify(f, p)
        IN  IF cur \in VALID_ARCHIVE_EXTENSIONS
            THEN sniff.ret = p /\ fs = f /\ ~sniff.renamed
            ELSE (/\ ArchiveHits(f[p].head) # {}
                  /\ ~Exists(f, RenameTarget) /\ f[Parent(p)] # LockedDir)
                 => /\ sniff.ret # p /\ sniff.ret = RenameTarget /\ sniff.renamed
                    /\ Parent(sniff.ret) = Parent(p)
                    /\ Stem(Last(sniff.ret)) = Stem(Last(p))
                    /\ Suffix(Last(sniff.ret)) \in ExtsOfFormat(v.format_name)
                    /\ Suffix(Last(sniff.ret)) \in VALID_ARCHIVE_EXTENSIONS
                    /\ ~Exists(fs, p)
                    /\ IsFile(fs, sniff.ret) /\ fs[sniff.ret] = f[p]
                    /\ DOMAIN fs = (DOMAIN f \ {p}) \cup {sniff.ret}
                    /\ \A q \in DOMAIN f \ {p} : fs[q] = f[q]

\* a 7Z named x.TXT was renamed to x.7z by a first call, and a second call,
\* on x.7z, has returned x.7z and renamed nothing
C26_Witness ==
    /\ FixedAnArchive /\ sniff.fixes = 2
    /\ sniff.arg = Child(SniffDir, Nm("x", ".7z")) /\ sniff.ret = sniff.arg
    /\ fs = sniff.before
    /\ ~Exists(fs, Child(SniffDir, Nm("x", ".TXT")))
    /\ \E m \in DOMAIN log :
          log[m] = Msg("fixed_ext", Child(SniffDir, Nm("x", ".TXT")), sniff.arg, "7Z")

\* C27: a frame about to invoke the decoder has a temp directory that holds
\* no file, and the files a frame enumerates are files its own decode wrote.
C27_TempDirFreshAtDecode ==
    /\ \A j \in DOMAIN stack :
          stack[j].pc = "decode" => FilesUnder(fs, stack[j].temp) = {}
    /\ \A j \in DOMAIN stack :
          (stack[j].pc = "classify" /\ fs[stack[j].corrected].tag \in DOMAIN world) =>
              Len(stack[j].files) = Cardinality(world[fs[stack[j].corrected].tag].out)

\* the entries of the table that are the longest signature a head starts with
LongestHits(h) ==
    {i \in DOMAIN MAGIC_NUMBERS :
        /\ StartsWith(h, MAGIC_NUMBERS[i].magic)
        /\ \A j \in DOMAIN MAGIC_NUMBERS :
              StartsWith(h, MAGIC_NUMBERS[j].magic) =>
                  Len(MAGIC_NUMBERS[j].magic) <= Len(MAGIC_NUMBERS[i].magic)}

\* C28: identify on a file of at least 4 bytes reports the format name of the
\* most specific signature its head starts with (MP4 for the two ftyp heads);
\* a head starting with 52 61 72 21 1A 07 is reported as 'RAR v5'.
C28_EveryEntryReachable ==
    (/\ cfg.driver = "sniff" /\ sniff.phase = "identified"
     /\ IsFile(fs, sniff.path) /\ Len(fs[sniff.path].head) >= 4
     /\ LongestHits(fs[sniff.path].head) # {}) =>
        \/ sniff.verdict.format_name = "MP4"
        \/ \E i \in LongestHits(fs[sniff.path].head) :
              sniff.verdict.format_name = MAGIC_NUMBERS[i].name

\* C29: no frame runs the decoder process twice: the runs of a run of the
\* program are for pairwise different (archive, temp directory) pairs; a frame
\* whose decoder exited with a code other than 0 and 1 has returned False from
\* its decode step; and a run through the shell is made only when the
\* configured binary is not there or was gone when started.
C29_DecoderRunsOncePerFrame ==
    /\ \A c \in DOMAIN calls :
          /\ \A d \in 1..(c - 1) :
                calls[d].path # calls[c].path \/ calls[d].out # calls[c].out
          /\ calls[c].via = "shell" => cfg.winrar \in {"absent", "vanished"}
          /\ cfg.winrar = "present" => calls[c].via = "path"
          /\ ~WinRARSuccess(calls[c].rc) =>
                /\ \A j \in DOMAIN stack :
                      ~(stack[j].corrected = calls[c].path /\ stack[j].temp = calls[c].out)
                /\ \E j \in DOMAIN exits :
                      /\ exits[j].temp = calls[c].out /\ exits[j].depth = calls[c].depth
                      /\ Parent(exits[j].file) = Parent(calls[c].path)
                      /\ Stem(Last(exits[j].file)) = Stem(Last(calls[c].path))
                      /\ exits[j].how = "false" /\ exits[j].at = "decode"
    /\ cfg.winrar = "broken" => calls = <<>>

\* with the binary gone at launch, extract has ended after one shell run that
\* decoded B.rar and one shell run that failed on the JPEG
C29_Witness ==
    /\ cfg.winrar = "vanished" /\ drv.pc = "done"
    /\ Len(calls) = 2
    /\ calls[1].via = "shell" /\ WinRARSuccess(calls[1].rc)
    /\ calls[2].via = "shell" /\ ~WinRARSuccess(calls[2].rc)
    /\ drv.success_count = 1

\* the percent values given to the progress callback so far, in order
Percents ==
    LET P == SelectSeq(signals, LAMBDA s : s.sig = "progress")
    IN  [i \in DOMAIN P |-> P[i].n]

\* C30: the percent values of a run are integers of 0..100 and never go
\* down, across the files of all tasks; a run that has ended, in whatever
\* way, has reported 100 as its last value; and a run on an empty list ends
\* without an error.
C30_ProgressMonotoneTo100 ==
    /\ \A i \in DOMAIN Percents : Percents[i] \in 0..100
    /\ \A i, j \in DOMAIN Percents : i < j => Percents[i] <= Percents[j]
    /\ drv.pc \in {"done", "crashed"} =>
          Percents # <<>> /\ Percents[Len(Percents)] = 100
    /\ (cfg.driver \in {"extract", "worker"} /\ SumFiles(cfg.tasks) = 0) => drv.pc # "crashed"

\* FileExtractor.extract on its own, called with the list of three, with a
\* chain of nested archives, with the archive that holds a copy of itself, or
\* without a WinRAR binary that starts
ExtractInit ==
    /\ InitCommon /\ sniff = Sniff0
    /\ (InitScenario \/ InitChain \/ InitSelf \/ InitFallback)

ExtractNext ==
    \/ Enter \/ FixInput \/ Decode \/ Enumerate \/ Classify
    \/ RecurseInit \/ Recurse \/ Merge \/ Cleanup
    \/ ExtractStart \/ ExtractLoop \/ ExtractAfter \/ ExtractFinish
    \/ Stop

\* the thread that called extract runs it step after step: no step that can
\* be taken is put off for ever
FairSpec == ExtractInit /\ [][ExtractNext]_vars /\ WF_vars(ExtractNext)

\* C31: the frames of _extract_recursive are never nested deeper than
\* MAX_RECURSION_DEPTH + 1, also for an archive that holds a copy of itself,
\* and every run of extract, whatever its list of files, comes to its end.
C31_ExtractTerminates ==
    /\ [](\A j \in DOMAIN stack :
              stack[j].depth = j - 1 /\ stack[j].depth <= MAX_RECURSION_DEPTH + 1)
    /\ (cfg.driver = "extract") ~> (drv.pc = "done")

\* extract has returned for the archive that holds a copy of itself, after
\* the copy at the deepest level allowed was refused
C31_Witness ==
    /\ cfg.driver = "extract" /\ cfg.tasks[1].files = <<SelfRoot>>
    /\ drv.pc = "done"
    /\ \E j \in DOMAIN exits :
           exits[j].depth = MAX_RECURSION_DEPTH + 1 /\ exits[j].at = "depth"
    /\ Len(calls) = MAX_RECURSION_DEPTH + 1

\* what one turn of the merge loop does with its file: where it goes
MergeStepPlaces ==
    LET fr == Top
        source == fr.non[fr.i]
        rel == RelativeTo(source, fr.temp)
        root == RootOf(stack[1].file)
        dest == root \o rel
        after == stack'[Len(stack')]
        to == after.moved[Len(after.moved)]
    IN  (Top.pc = "merge" /\ Len(stack') = Len(stack) /\ stack' # stack) =>
            /\ Len(after.moved) = Len(fr.moved) + 1
            /\ Parent(to) = Parent(dest)
            /\ IF Exists(fs, dest)
               THEN \E n \in 1..(Cardinality(DOMAIN fs) + 1) : to = Suffixed(dest, n)
               ELSE to = dest
            /\ \A q \in Prefixes(Parent(to)) : IsDir(fs', q)
            /\ IsFile(fs', to) /\ Content(fs'[to]) = Content(fs[source])
            /\ ~Exists(fs', source)

\* C32: a turn of the merge loop moves its non-archive file, found at the
\* relative path r under the frame's temp directory, to final_output_dir/r, or,
\* when that path is taken, to a suffixed name in the same directory; the
\* directories of r exist under final_output_dir afterwards; final_output_dir
\* is the root of the top-level file at every nesting depth.
C32_MergePreservesRelativePath ==
    [][stack # <<>> => MergeStepPlaces]_vars

\* a nested frame has moved a file it found in a subdirectory of its temp
\* directory to the same subdirectory of the destination
C32_Witness ==
    \E j \in DOMAIN exits :
        /\ exits[j].depth >= 1 /\ exits[j].how = "true"
        /\ \E k \in DOMAIN exits[j].moved :
              /\ exits[j].moved[k] =
                     exits[j].final \o RelativeTo(exits[j].non[k], exits[j].temp)
              /\ Len(RelativeTo(exits[j].non[k], exits[j].temp)) = 2
              /\ IsFile(fs, exits[j].moved[k])

\* the top-level files extract has started so far
Started == Len(SelectSeq(log, LAMBDA m : m.kind = "processing"))

\* C33: once FileExtractor.stop() has been called the cancellation check of
\* extract is true, and extract has started no top-level file since.
C33_StopEndsExtraction ==
    stopcall.called => (ShouldStop /\ Started = stopcall.started)

\* the top-level files fix_extension skipped as non-archives, and whose frame
\* has returned
TopNonArchives ==
    {j \in DOMAIN exits :
        /\ exits[j].depth = 0 /\ exits[j].how # "raise"
        /\ \E m \in DOMAIN log : log[m].kind = "skip_fix" /\ log[m].path = exits[j].file}

\* the decoder runs for the top-level file of an exit record
TopCalls(j) ==
    {c \in DOMAIN calls : calls[c].depth = 0 /\ calls[c].path = exits[j].file}

\* C34 as the claim states it: the decoder is never run on a file identify
\* classifies as non-archive, nested or top-level, and a top-level non-archive
\* file is returned as a failure with no decode attempt.
C34_DecoderOnlyOnArchives ==
    /\ \A c \in DOMAIN calls : calls[c].sniffed
    /\ \A j \in TopNonArchives : exits[j].how = "false" /\ ~exits[j].decoded

\* C34, amended: the decoder is never run on a nested file identify
\* classifies as non-archive; a top-level file that exists is handed to the
\* decoder whatever identify says, so a top-level non-archive file fails only
\* by its decode attempt and is returned as a success when the decoder
\* accepts it and writes a file.
C34_NestedNonArchiveNeverDecoded ==
    /\ \A c \in DOMAIN calls : calls[c].depth >= 1 => calls[c].sniffed
    /\ \A j \in TopNonArchives :
           /\ exits[j].at \in {"decode", "empty", "end"}
           /\ cfg.winrar # "broken" =>
                  /\ TopCalls(j) # {}
                  /\ \A c \in TopCalls(j) : ~calls[c].sniffed
           /\ exits[j].how = "true" <=>
                  (exits[j].nfiles > 0 /\ \E c \in TopCalls(j) : WinRARSuccess(calls[c].rc))

\* a self-extracting archive, an executable to identify, was decoded and
\* counted as a success, and a JPEG was decoded and failed
C34_Witness ==
    \E j \in TopNonArchives :
        /\ exits[j].how = "true" /\ exits[j].file = SfxRoot
        /\ \E c \in TopCalls(j) : ~calls[c].sniffed /\ WinRARSuccess(calls[c].rc)
        /\ drv.pc = "done" /\ drv.success_count = 1

\* the directory the merged files of the run go to
RunRoot == IF cfg.extract_to_source THEN Src ELSE Out

\* the paths that existed before the run
InitialPaths ==
    DOMAIN InitFs(RunRoot, cfg.pre) \cup {SfxRoot, SelfRoot}

\* the top-level files under their corrected names
RenamedSources ==
    {log[m].to : m \in {k \in DOMAIN log : log[k].kind = "fixed_ext" /\ Parent(log[k].path) = Src}}

\* the files a frame has merged
MergedFiles ==
    UNION {{exits[j].moved[k] : k \in DOMAIN exits[j].moved} : j \in DOMAIN exits}

\* C35: between two top-level files and at the end of the run, every file
\* the run has added under final_output_dir is a file a frame merged after
\* identify classified it as non-archive; no nested archive file is among
\* them, whether it decoded, failed to decode or was refused for its depth.
C35_OnlyNonArchivesReachFinalOutput ==
    stack = <<>> =>
        \A p \in FilesUnder(fs, RunRoot) \ (InitialPaths \cup RenamedSources) :
            /\ p \in MergedFiles
            /\ ~identify(fs, p).is_archive

\* the file system before the run of extract
InitialFs ==
    LET files == cfg.tasks[1].files
    IN  IF files = <<SfxRoot>>
        THEN (SfxRoot :> FileNode(Bytes(ExeHead, "sfx", 0))) @@ InitFs(RunRoot, cfg.pre)
        ELSE IF files = <<SelfRoot>>
        THEN (SelfRoot :> FileNode(Bytes(ZipHead, "self", 0))) @@ InitFs(RunRoot, cfg.pre)
        ELSE InitFs(RunRoot, cfg.pre)

\* the top-level files fix_extension has renamed, under their old names
SourcesRenamed ==
    {log[m].path : m \in {k \in DOMAIN log : log[k].kind = "fixed_ext" /\ Parent(log[k].path) = Src}}

\* C36: when extract has ended, what lies under final_output_dir is what was
\* there before the run, unchanged, plus the files the frames merged and the
\* directories those files lie in: no directory named after an archive's
\* stem and no temp directory is left.
C36_OnlyMergedFilesAdded ==
    (cfg.driver = "extract" /\ drv.pc = "done") =>
        LET under == {p \in DOMAIN fs : IsPrefix(RunRoot, p) /\ p # RunRoot}
            needed == UNION {Prefixes(Parent(q)) : q \in MergedFiles \ {NoPath}}
        IN  /\ \A p \in under :
                   \/ p \in DOMAIN InitialFs
                   \/ p \in MergedFiles
                   \/ p \in needed
                   \/ p \in RenamedSources
            /\ \A p \in DOMAIN InitialFs :
                   (IsPrefix(RunRoot, p) /\ p \notin SourcesRenamed) =>
                       (p \in DOMAIN fs /\ fs[p] = InitialFs[p])

\* C37: fix_extension called on a file whose extension is a volume extension
\* returns the path it was given and renames nothing, whatever the head of
\* the file is.
C37_VolumeNeverRenamed ==
    (sniff.phase = "fixed" /\ Lower(Suffix(Last(sniff.arg))) \in VOLUME_EXTENSIONS) =>
        (sniff.ret = sniff.arg /\ ~sniff.renamed /\ fs = sniff.before)

\* the ftyp box marker, bytes 5 to 8 of an MP4 file
HasFtyp(h) == Len(h) >= 8 /\ SubSeq(h, 5, 8) = <<102, 116, 121, 112>>

\* C38: identify on a file of at least 4 bytes whose head starts with
\* 00 00 00 answers non-archive, MP4, when the ftyp marker follows, and
\* otherwise what the classification by extension gives, is_archive = TRUE
\* for .rar and .zip.
C38_ZeroRunNeedsFtyp ==
    ( /\ sniff.phase = "identified" /\ IsFile(fs, sniff.path)
      /\ Len(fs[sniff.path].head) >= 4
      /\ StartsWith(fs[sniff.path].head, <<0, 0, 0>>) ) =>
        LET h == fs[sniff.path].head
            cur == Lower(Suffix(Last(sniff.path)))
        IN  IF HasFtyp(h)
            THEN ~sniff.verdict.is_archive /\ sniff.verdict.format_name = "MP4"
            ELSE /\ sniff.verdict = ExtensionVerdict(cur, Len(h))
                 /\ cur \in {".rar", ".zip"} => sniff.verdict.is_archive

\* C39: identify gives the same is_archive verdict for the file a call of
\* fix_extension was given and for the file at the path it returned; and a
\* second call, on the path the first one returned, returns that path and
\* leaves the file system as it is.
C39_FixExtensionIdempotent ==
    /\ sniff.phase = "fixed" =>
           identify(fs, sniff.ret).is_archive = identify(sniff.before, sniff.arg).is_archive
    /\ (sniff.phase = "fixed" /\ sniff.fixes = 2) =>
           (sniff.ret = sniff.arg /\ ~sniff.renamed /\ fs = sniff.before)

\* a ZIP named x.txt was renamed to x.zip by the first call; the second call,
\* on x.zip, has returned, and identify still says archive
C39_Witness ==
    /\ sniff.phase = "fixed" /\ sniff.fixes = 2
    /\ sniff.ret = Child(SniffDir, Nm("x", ".zip"))
    /\ Len(log) = 1 /\ log[1].kind = "fixed_ext"
    /\ log[1].path = Child(SniffDir, Nm("x", ".txt"))
    /\ identify(fs, sniff.ret).is_archive

\* C40: whatever operations were called on a PasswordManager that started
\* empty, its list holds no empty password and no password twice.
C40_NoDuplicateNoEmpty ==
    /\ \A i \in DOMAIN passwords : passwords[i] # ""
    /\ \A i, j \in DOMAIN passwords : passwords[i] = passwords[j] => i = j

====
